---- MODULE Spec2Model ----
(***************************************************************************)
(* Table-driven loss-coefficient resolution of the duct pressure-loss      *)
(* calculator: the directional lookups the case routines run on their case *)
(* table (floor, ceil, nearest; narrowing and independent mode) and the    *)
(* inverse-distance-weighting interpolation of interpolation.py.           *)
(*                                                                         *)
(* A case table is a sequence of rows in the order of the data source.     *)
(* A row has up to three key columns k1, k2, k3 and the value column C.    *)
(* Key values are integers (the tabulated ratios on a grid); a missing     *)
(* cell is NA.  The C of a row of a lookup table is its position in the     *)
(* source, so a coefficient names the row that supplied it.                *)
(***************************************************************************)
EXTENDS Integers, Sequences, FiniteSets

VARIABLES table, op, q, par, res, book, cache, loads, acc, shown

vars == <<table, op, q, par, res, book, cache, loads, acc, shown>>

\* ---------------------------------------------------------------- bounds
\* the most rows a case table holds
MaxRows == 3

\* the missing value of a cell (pandas NaN): no comparison with it holds
NA == 0 - 1000

\* the tabulated values of a key column, and the query values: below the
\* table, on a tabulated value, between two of them, above the table
Keys == {0, 2}

Targets == (0 - 1)..3

\* ------------------------------------------------------ generic helpers
Abs(x) == IF x < 0 THEN 0 - x ELSE x

SetMax(S) == CHOOSE x \in S : \A y \in S : y <= x

SetMin(S) == CHOOSE x \in S : \A y \in S : x <= y

Range(s) == {s[i] : i \in DOMAIN s}

\* df[cols].dropna(): the rows with no missing cell in cols, source order kept
dropna(df, cols) == SelectSeq(df, LAMBDA r : \A c \in cols : r[c] # NA)

\* df[df[col] == v]
RowsEq(df, col, v) == SelectSeq(df, LAMBDA r : r[col] = v)

\* df[df[col] <= t]; a missing cell compares false
RowsLe(df, col, t) == SelectSeq(df, LAMBDA r : r[col] # NA /\ r[col] <= t)

\* df[df[col] >= t]; a missing cell compares false
RowsGe(df, col, t) == SelectSeq(df, LAMBDA r : r[col] # NA /\ r[col] >= t)

\* df[col] as a sequence
Column(df, col) == [i \in DOMAIN df |-> df[i][col]]

RECURSIVE uniqueOf(_, _)
uniqueOf(s, seen) ==
    IF s = <<>> THEN <<>>
    ELSE IF Head(s) \in seen THEN uniqueOf(Tail(s), seen)
    ELSE <<Head(s)>> \o uniqueOf(Tail(s), seen \cup {Head(s)})

\* df[col].unique(): the distinct values in order of first appearance
unique(df, col) == uniqueOf(Column(df, col), {})

\* the identities (C = source position) of the rows of a frame
Ids(df) == {df[i].C : i \in DOMAIN df}

\* a floor that takes the smallest value <= t instead of the largest
FloorMatchSmallest(vals, t) ==
    LET le == {v \in Range(vals) : v <= t}
    IN  IF le # {} THEN SetMin(le) ELSE SetMin(Range(vals))

\* max([v for v in vals if v <= t], default=min(vals)), vals not empty
FloorMatch(vals, t) ==
    LET le == {v \in Range(vals) : v <= t}
    IN  IF le # {} THEN SetMax(le) ELSE SetMin(Range(vals))

\* a ceil that takes the largest value >= t instead of the smallest
CeilMatchLargest(vals, t) ==
    LET ge == {v \in Range(vals) : v >= t}
    IN  IF ge # {} THEN SetMax(ge) ELSE SetMax(Range(vals))

\* min([v for v in vals if v >= t], default=max(vals)), vals not empty
CeilMatch(vals, t) ==
    LET ge == {v \in Range(vals) : v >= t}
    IN  IF ge # {} THEN SetMin(ge) ELSE SetMax(Range(vals))

\* a nearest whose key lacks the abs: min(vals, key=lambda x: x - t)
NearestMatchNoAbs(vals, t) ==
    LET best == SetMin({vals[i] - t : i \in DOMAIN vals})
        i0 == SetMin({i \in DOMAIN vals : vals[i] - t = best})
    IN  vals[i0]

\* min(vals, key=lambda x: abs(x - t)): the first of the closest values
NearestMatch(vals, t) ==
    LET best == SetMin({Abs(vals[i] - t) : i \in DOMAIN vals})
        i0 == SetMin({i \in DOMAIN vals : Abs(vals[i] - t) = best})
    IN  vals[i0]

\* ------------------------------------------------------------- results
\* st: "ok" a coefficient was returned, "error" an Error entry was returned,
\* "absent" the coefficient entry is None without an Error, "raise" an
\* exception left the routine.  sel: the selected value of each field.
\* cands: the identities of the candidate rows before the first field and
\* after each field.
\* C2: the second coefficient of a routine that resolves two.
Result(st, c, sel, cands) ==
    [st |-> st, C |-> c, C2 |-> NA, sel |-> sel, cands |-> cands]

With2(r, c2) == [r EXCEPT !.C2 = c2]

NoResult == Result("none", NA, <<>>, <<>>)

\* ------------------------------------------------------------- tables
RowsOf(K1, K2, K3) == [k1 : K1, k2 : K2, k3 : K3]

\* the tables of n rows over the key sets; C is the source position
TablesOf(K1, K2, K3) ==
    UNION {
        {[i \in 1..n |-> [k1 |-> f[i].k1, k2 |-> f[i].k2, k3 |-> f[i].k3, C |-> i]] :
            f \in [1..n -> RowsOf(K1, K2, K3)]} : n \in 1..MaxRows}

\* nothing is on the output frame
NoShow == [kind |-> "empty", text |-> "", labels |-> {}]

\* the data source, the table cache and the display play no part
NoSource ==
    /\ book = <<>>
    /\ cache = <<>>
    /\ loads = <<>>
    /\ acc = <<>>
    /\ shown = NoShow

InitWith(T) ==
    /\ table \in T
    /\ op = "idle"
    /\ q = <<>>
    /\ par = <<>>
    /\ res = NoResult
    /\ NoSource

Init1 == InitWith(TablesOf(Keys \cup {NA}, {0}, {0}))

Init2 == InitWith(TablesOf(Keys \cup {NA}, Keys, {0}))

Init3 == InitWith(TablesOf(Keys, Keys, Keys))

\* the result of a request is request-local: it is discarded after use
Discard ==
    /\ op # "idle"
    /\ op' = "idle"
    /\ q' = <<>>
    /\ par' = <<>>
    /\ res' = NoResult
    /\ acc' = <<>>
    /\ shown' = NoShow
    /\ UNCHANGED <<table, book, cache, loads>>

Idle == op = "idle"

Finish(name, targets, r) ==
    /\ op' = name
    /\ q' = targets
    /\ par' = <<>>
    /\ res' = r
    /\ UNCHANGED <<table, book, cache, loads, acc, shown>>

\* ------------------------------------------------- single-field floor
\* A15C: h/D rounded down, fallback to the minimum
A15C_lookup(tbl, h_D) ==
    LET df == dropna(tbl, {"k1", "C"})
        hD_vals == unique(df, "k1")
    IN  IF hD_vals = <<>> THEN Result("error", NA, <<>>, <<Ids(df)>>)
        ELSE LET hD_match == FloorMatch(hD_vals, h_D)
                 matched_row == RowsEq(df, "k1", hD_match)
             IN  IF matched_row = <<>>
                 THEN Result("error", NA, <<hD_match>>, <<Ids(df), {}>>)
                 ELSE Result("ok", matched_row[1].C, <<hD_match>>,
                             <<Ids(df), Ids(matched_row)>>)

A15C == Idle /\ \E t \in Targets : Finish("A15C", <<t>>, A15C_lookup(table, t))

\* A14A1: free area ratio n rounded down, fallback to the minimum
A14A1_lookup(tbl, n) ==
    LET df == dropna(tbl, {"k1", "C"})
        n_vals == unique(df, "k1")
    IN  IF n_vals = <<>> THEN Result("error", NA, <<>>, <<Ids(df)>>)
        ELSE LET n_match == FloorMatch(n_vals, n)
                 matched_row == RowsEq(df, "k1", n_match)
             IN  IF matched_row = <<>>
                 THEN Result("error", NA, <<n_match>>, <<Ids(df), {}>>)
                 ELSE Result("ok", matched_row[1].C, <<n_match>>,
                             <<Ids(df), Ids(matched_row)>>)

A14A1 == Idle /\ \E t \in Targets : Finish("A14A1", <<t>>, A14A1_lookup(table, t))

\* A12B: R/D rounded down, fallback to the minimum
A12B_lookup(tbl, R_D) ==
    LET df == dropna(tbl, {"k1", "C"})
        r_d_vals == unique(df, "k1")
    IN  IF r_d_vals = <<>> THEN Result("error", NA, <<>>, <<Ids(df)>>)
        ELSE LET r_d_match == FloorMatch(r_d_vals, R_D)
                 matched_row == RowsEq(df, "k1", r_d_match)
             IN  IF matched_row = <<>>
                 THEN Result("error", NA, <<r_d_match>>, <<Ids(df), {}>>)
                 ELSE Result("ok", matched_row[1].C, <<r_d_match>>,
                             <<Ids(df), Ids(matched_row)>>)

A12B == Idle /\ \E t \in Targets : Finish("A12B", <<t>>, A12B_lookup(table, t))

\* ------------------------------------------------ rows of a sorted frame
\* sort_values on one column is not stable: among the rows that tie on the
\* column any may come first, so the first (last) row of the sorted frame is
\* any row holding the minimum (maximum).
SortedFirst(df, col) == {r \in Range(df) : \A s \in Range(df) : r[col] <= s[col]}

SortedLast(df, col) == {r \in Range(df) : \A s \in Range(df) : s[col] <= r[col]}

LexLe(r, s, c1, c2) == r[c1] < s[c1] \/ (r[c1] = s[c1] /\ r[c2] <= s[c2])

\* sort_values on two columns is a stable lexicographic sort: ties keep the
\* source order
SortedFirst2(df, c1, c2) ==
    LET m == {i \in DOMAIN df : \A j \in DOMAIN df : LexLe(df[i], df[j], c1, c2)}
    IN  df[SetMin(m)]

SortedLast2(df, c1, c2) ==
    LET m == {i \in DOMAIN df : \A j \in DOMAIN df : LexLe(df[j], df[i], c1, c2)}
    IN  df[SetMax(m)]

\* --------------------------------------------------- narrowing lookups
\* the angle below which (inclusive) A13C rounds As/A down: angle <= 20
A13C_ANGLE_LIMIT == 20

\* the angle grid of the A13C table, in degrees
Deg13C(t) == A13C_ANGLE_LIMIT * t

\* A13C: ANGLE rounded up, then As/A within the rows of that angle: rounded
\* down for angle <= 20, nearest otherwise
A13C_lookup(tbl, angle, A_ratio) ==
    LET df == dropna(tbl, {"k1", "k2", "C"})
        angle_vals == unique(df, "k1")
    IN  IF angle_vals = <<>> THEN Result("error", NA, <<>>, <<Ids(df)>>)
        ELSE LET angle_match == CeilMatch(angle_vals, angle)
                 at_angle == RowsEq(df, "k1", angle_match)
                 ratio_subset == unique(at_angle, "k2")
                 ratio_match == IF Deg13C(angle) <= A13C_ANGLE_LIMIT
                                THEN FloorMatch(ratio_subset, A_ratio)
                                ELSE NearestMatch(ratio_subset, A_ratio)
                 matched_row == RowsEq(at_angle, "k2", ratio_match)
             IN  IF matched_row = <<>>
                 THEN Result("error", NA, <<angle_match, ratio_match>>,
                             <<Ids(df), Ids(at_angle), {}>>)
                 ELSE Result("ok", matched_row[1].C, <<angle_match, ratio_match>>,
                             <<Ids(df), Ids(at_angle), Ids(matched_row)>>)

A13C == Idle /\ \E t1, t2 \in Targets : Finish("A13C", <<t1, t2>>, A13C_lookup(table, t1, t2))

\* A8G _loss_coeff_nearest: smallest ANGLE >= angle (or the maximum), then
\* within that angle the smallest A1/A >= area_ratio (or the maximum)
A8G_loss_coeff_nearest(tbl, angle, area_ratio) ==
    LET dat == dropna(tbl, {"k1", "k2", "C"})
        valid_angle == RowsGe(dat, "k1", angle)
    IN  IF dat = <<>> THEN {Result("raise", NA, <<>>, <<Ids(dat)>>)}
        ELSE LET chosen_angle == IF valid_angle = <<>>
                                 THEN SetMax(Range(Column(dat, "k1")))
                                 ELSE SortedFirst2(valid_angle, "k1", "k2").k1
                 slice_df == RowsEq(dat, "k1", chosen_angle)
                 valid_area == RowsGe(slice_df, "k2", area_ratio)
                 chosen == IF valid_area = <<>> THEN SortedLast(slice_df, "k2")
                           ELSE SortedFirst(valid_area, "k2")
             IN  {Result("ok", chosen_row.C, <<chosen_angle, chosen_row.k2>>,
                         <<Ids(dat), Ids(slice_df), {chosen_row.C}>>) :
                     chosen_row \in chosen}

A8G == Idle /\ \E t1, t2 \in Targets : \E r \in A8G_loss_coeff_nearest(table, t1, t2) :
           Finish("A8G", <<t1, t2>>, r)

\* an A7D that matches ANGLE on the whole table instead of the H/W rows
A7D_lookup_unnarrowed(tbl, h_w_ratio, entry_3) ==
    LET hw_data == dropna(tbl, {"k1", "k2", "C"})
        valid_hw == RowsLe(hw_data, "k1", h_w_ratio)
    IN  IF hw_data = <<>> THEN {Result("raise", NA, <<>>, <<Ids(hw_data)>>)}
        ELSE LET closest_hw_row == IF valid_hw = <<>>
                                   THEN SortedFirst2(hw_data, "k1", "k2")
                                   ELSE SortedLast2(valid_hw, "k1", "k2")
                 closest_h_w == closest_hw_row.k1
                 angle_data == hw_data
                 valid_angles == RowsGe(angle_data, "k2", entry_3)
                 closest == IF valid_angles = <<>> THEN SortedLast(angle_data, "k2")
                            ELSE SortedFirst(valid_angles, "k2")
             IN  {Result("ok", closest_angle_row.C, <<closest_h_w, closest_angle_row.k2>>,
                         <<Ids(hw_data), Ids(angle_data), {closest_angle_row.C}>>) :
                     closest_angle_row \in closest}

\* A7D: H/W rounded down (fallback minimum), then ANGLE rounded up (fallback
\* maximum) within the rows of that H/W
A7D_lookup(tbl, h_w_ratio, entry_3) ==
    LET hw_data == dropna(tbl, {"k1", "k2", "C"})
        valid_hw == RowsLe(hw_data, "k1", h_w_ratio)
    IN  IF hw_data = <<>> THEN {Result("raise", NA, <<>>, <<Ids(hw_data)>>)}
        ELSE LET closest_hw_row == IF valid_hw = <<>>
                                   THEN SortedFirst2(hw_data, "k1", "k2")
                                   ELSE SortedLast2(valid_hw, "k1", "k2")
                 closest_h_w == closest_hw_row.k1
                 angle_data == RowsEq(hw_data, "k1", closest_h_w)
                 valid_angles == RowsGe(angle_data, "k2", entry_3)
                 closest == IF valid_angles = <<>> THEN SortedLast(angle_data, "k2")
                            ELSE SortedFirst(valid_angles, "k2")
             IN  {Result("ok", closest_angle_row.C, <<closest_h_w, closest_angle_row.k2>>,
                         <<Ids(hw_data), Ids(angle_data), {closest_angle_row.C}>>) :
                     closest_angle_row \in closest}

A7D == Idle /\ \E t1, t2 \in Targets : \E r \in A7D_lookup(table, t1, t2) :
           Finish("A7D", <<t1, t2>>, r)

\* the angle from which A8A rounds ANGLE down instead of up: entry_3 < 90
A8A_ANGLE_LIMIT == 90

\* the angle grid of the A8A table, in degrees
Deg8A(t) == A8A_ANGLE_LIMIT * t

\* A8A: Re rounded down, then A1/A rounded up within that Re, then ANGLE
\* within that A1/A: rounded up below 90 degrees, rounded down from 90
A8A_angle(re_data, area_data, angle_data, entry_3) ==
    LET closest ==
            IF Deg8A(entry_3) < A8A_ANGLE_LIMIT
            THEN LET valid_angle == RowsGe(angle_data, "k3", entry_3)
                 IN  IF valid_angle = <<>> THEN SortedLast(angle_data, "k3")
                     ELSE SortedFirst(valid_angle, "k3")
            ELSE LET valid_angle == RowsLe(angle_data, "k3", entry_3)
                 IN  IF valid_angle = <<>> THEN SortedFirst(angle_data, "k3")
                     ELSE SortedLast(valid_angle, "k3")
    IN  {Result("ok", closest_angle_row.C,
                <<area_data[1].k1, angle_data[1].k2, closest_angle_row.k3>>,
                <<Ids(re_data), Ids(area_data), Ids(angle_data), {closest_angle_row.C}>>) :
            closest_angle_row \in closest}

A8A_area(re_data, area_data, area_ratio, entry_3) ==
    LET valid_area == RowsGe(area_data, "k2", area_ratio)
        closest == IF valid_area = <<>> THEN SortedLast(area_data, "k2")
                   ELSE SortedFirst(valid_area, "k2")
    IN  UNION {A8A_angle(re_data, area_data, angle_data, entry_3) :
                  angle_data \in {RowsEq(area_data, "k2", r.k2) : r \in closest}}

A8A_lookup(tbl, reynolds_number, area_ratio, entry_3) ==
    UNION {
      IF re_data = <<>> THEN {Result("raise", NA, <<>>, <<Ids(re_data)>>)}
      ELSE LET valid_re == RowsLe(re_data, "k1", reynolds_number)
               closest == IF valid_re = <<>> THEN SortedFirst(re_data, "k1")
                          ELSE SortedLast(valid_re, "k1")
           IN  UNION {A8A_area(re_data, area_data, area_ratio, entry_3) :
                         area_data \in {RowsEq(re_data, "k1", r.k1) : r \in closest}} :
      re_data \in {dropna(tbl, {"k1", "k2", "k3", "C"})}}

A8A == Idle /\ \E t1, t2, t3 \in Targets : \E r \in A8A_lookup(table, t1, t2, t3) :
           Finish("A8A", <<t1, t2, t3>>, r)

\* -------------------------------------------------- nearest lookups
\* the query angles of A12D1 in half degrees: the computed angle is not whole
HalfTargets == {2 * t + h : t \in Targets, h \in {0, 1}}

\* int(round(x)) of x = a2 / 2: to the nearest whole number, a half to the
\* even neighbour
PyRound2(a2) ==
    LET f == a2 \div 2
    IN  IF a2 % 2 = 0 THEN f
        ELSE IF f % 2 = 0 THEN f ELSE f + 1

\* A12D1: L/D rounded down and, on the unfiltered table, the ANGLE nearest to
\* the rounded angle; the row holding both supplies C
A12D1_lookup(tbl, L_D, angle_deg2) ==
    LET angle_rounded == PyRound2(angle_deg2)
        df == dropna(tbl, {"k1", "k2", "C"})
        L_D_vals == unique(df, "k1")
        angle_vals == unique(df, "k2")
    IN  IF df = <<>> THEN Result("error", NA, <<>>, <<Ids(df)>>)
        ELSE LET L_D_match == FloorMatch(L_D_vals, L_D)
                 angle_match == NearestMatch(angle_vals, angle_rounded)
                 row == RowsEq(RowsEq(df, "k1", L_D_match), "k2", angle_match)
             IN  IF row = <<>>
                 THEN Result("error", NA, <<L_D_match, angle_match>>, <<Ids(df), {}>>)
                 ELSE Result("ok", row[1].C, <<L_D_match, angle_match>>,
                             <<Ids(df), Ids(row)>>)

A12D1 == Idle /\ \E t1 \in Targets, a2 \in HalfTargets :
             Finish("A12D1", <<t1, a2>>, A12D1_lookup(table, t1, a2))

\* A11U branch: the first row of the table sorted by |Vb/Vc - target|; a row
\* with a missing Vb/Vc sorts last
A11U_lookup(tbl, Vb_Vc) ==
    LET branch_data == tbl
        known == dropna(branch_data, {"k1"})
        best == SetMin({Abs(known[i].k1 - Vb_Vc) : i \in DOMAIN known})
        first == IF known = <<>> THEN Range(branch_data)
                 ELSE {r \in Range(known) : Abs(r.k1 - Vb_Vc) = best}
    IN  IF branch_data = <<>> THEN {Result("error", NA, <<>>, <<{}>>)}
        ELSE {Result("ok", branch_row.C, <<branch_row.k1>>,
                     <<Ids(branch_data), {branch_row.C}>>) : branch_row \in first}

A11U == Idle /\ \E t \in Targets : \E r \in A11U_lookup(table, t) :
            Finish("A11U", <<t>>, r)

\* ------------------------------------------------ independent lookups
\* an A12A1 that matches L/D within the rows of the matched t/D
A12A1_lookup_narrowing(tbl, t_D, L_D) ==
    LET df == dropna(tbl, {"k1", "k2", "C"})
        tD_vals == unique(df, "k1")
    IN  IF df = <<>> THEN Result("error", NA, <<>>, <<Ids(df)>>)
        ELSE LET tD_match == FloorMatch(tD_vals, t_D)
                 LD_vals == unique(RowsEq(df, "k1", tD_match), "k2")
                 LD_match == CeilMatch(LD_vals, L_D)
                 matched_row == RowsEq(RowsEq(df, "k1", tD_match), "k2", LD_match)
             IN  IF matched_row = <<>>
                 THEN Result("error", NA, <<tD_match, LD_match>>, <<Ids(df), {}>>)
                 ELSE Result("ok", matched_row[1].C, <<tD_match, LD_match>>,
                             <<Ids(df), Ids(matched_row)>>)

\* A12A1: t/D rounded down and L/D rounded up, each on the unfiltered table;
\* the row holding both supplies C
A12A1_lookup(tbl, t_D, L_D) ==
    LET df == dropna(tbl, {"k1", "k2", "C"})
        tD_vals == unique(df, "k1")
        LD_vals == unique(df, "k2")
    IN  IF df = <<>> THEN Result("error", NA, <<>>, <<Ids(df)>>)
        ELSE LET tD_match == FloorMatch(tD_vals, t_D)
                 LD_match == CeilMatch(LD_vals, L_D)
                 matched_row == RowsEq(RowsEq(df, "k1", tD_match), "k2", LD_match)
             IN  IF matched_row = <<>>
                 THEN Result("error", NA, <<tD_match, LD_match>>, <<Ids(df), {}>>)
                 ELSE Result("ok", matched_row[1].C, <<tD_match, LD_match>>,
                             <<Ids(df), Ids(matched_row)>>)

A12A1 == Idle /\ \E t1, t2 \in Targets :
             Finish("A12A1", <<t1, t2>>, A12A1_lookup(table, t1, t2))

\* A14B1: n rounded down and t/D rounded down, each on the unfiltered table
A14B1_lookup(tbl, n, t_D) ==
    LET df == dropna(tbl, {"k1", "k2", "C"})
        n_vals == unique(df, "k1")
        tD_vals == unique(df, "k2")
    IN  IF df = <<>> THEN Result("error", NA, <<>>, <<Ids(df)>>)
        ELSE LET n_match == FloorMatch(n_vals, n)
                 tD_match == FloorMatch(tD_vals, t_D)
                 matched_row == RowsEq(RowsEq(df, "k1", n_match), "k2", tD_match)
             IN  IF matched_row = <<>>
                 THEN Result("error", NA, <<n_match, tD_match>>, <<Ids(df), {}>>)
                 ELSE Result("ok", matched_row[1].C, <<n_match, tD_match>>,
                             <<Ids(df), Ids(matched_row)>>)

A14B1 == Idle /\ \E t1, t2 \in Targets :
             Finish("A14B1", <<t1, t2>>, A14B1_lookup(table, t1, t2))

\* A10B branch: the row of the smallest Qb/Qc >= target (or of the maximum) and
\* the row of the largest Ab/Ac <= target (or of the minimum), each on the
\* unfiltered branch rows; the coefficient is the product of the two rows' C
A10B_lookup(tbl, Qb_Qc, Ab_Ac) ==
    LET branch_q_data == dropna(tbl, {"k1", "k2", "C"})
        valid_branch_q == RowsGe(branch_q_data, "k1", Qb_Qc)
        branch_a_data == dropna(tbl, {"k2", "C"})
        valid_branch_a == RowsLe(branch_a_data, "k2", Ab_Ac)
    IN  IF branch_q_data = <<>> \/ branch_a_data = <<>>
        THEN {Result("raise", NA, <<>>, <<Ids(branch_q_data)>>)}
        ELSE {Result("ok", closest_branch_q.C * closest_branch_a.C,
                     <<closest_branch_q.k1, closest_branch_a.k2>>,
                     <<{closest_branch_q.C}, {closest_branch_a.C}>>) :
                closest_branch_q \in IF valid_branch_q # <<>>
                                     THEN SortedFirst(valid_branch_q, "k1")
                                     ELSE SortedLast(branch_q_data, "k1"),
                closest_branch_a \in IF valid_branch_a # <<>>
                                     THEN SortedLast(valid_branch_a, "k2")
                                     ELSE SortedFirst(branch_a_data, "k2")}

A10B == Idle /\ \E t1, t2 \in Targets : \E r \in A10B_lookup(table, t1, t2) :
            Finish("A10B", <<t1, t2>>, r)

\* ------------------------------------------- lookups without fallback
\* A7A: the K of the smallest ANGLE >= entry_3 and the C of the largest
\* R/D <= entry_2; an empty filter is indexed all the same and the
\* IndexError leaves the routine
A7A_lookup(tbl, entry_3, entry_2) ==
    LET df_angle == dropna(tbl, {"k2", "C"})
        valid_angle == RowsGe(df_angle, "k2", entry_3)
        df_rd == dropna(tbl, {"k1", "C"})
        valid_rows == RowsLe(df_rd, "k1", entry_2)
    IN  IF valid_angle = <<>> THEN {Result("raise", NA, <<>>, <<Ids(df_angle), {}>>)}
        ELSE IF valid_rows = <<>> THEN {Result("raise", NA, <<>>, <<Ids(df_rd), {}>>)}
        ELSE {With2(Result("ok", closest_rd_row.C, <<closest_rd_row.k1, closest_angle_row.k2>>,
                           <<Ids(df_rd), {closest_rd_row.C}>>), closest_angle_row.C) :
                closest_angle_row \in SortedFirst(valid_angle, "k2"),
                closest_rd_row \in SortedLast(valid_rows, "k1")}

A7A == Idle /\ \E t1, t2 \in Targets : \E r \in A7A_lookup(table, t2, t1) :
           Finish("A7A", <<t1, t2>>, r)

\* A11A branch: the first row, sorted by (Ab/Ac, Qb/Qc), of the rows with
\* Ab/Ac >= target and Qb/Qc >= target; no such row: the coefficient is None
A11A_branch(branch_data, Ab_Ac, Qb_Qc) ==
    LET branch_filtered == RowsGe(RowsGe(branch_data, "k1", Ab_Ac), "k2", Qb_Qc)
    IN  IF branch_filtered # <<>>
        THEN LET branch_row == SortedFirst2(branch_filtered, "k1", "k2")
             IN  Result("ok", branch_row.C, <<branch_row.k1, branch_row.k2>>,
                        <<Ids(branch_data), Ids(branch_filtered)>>)
        ELSE Result("absent", NA, <<>>, <<Ids(branch_data), {}>>)

\* A11A main: the first row, sorted by Vs/Vc, of the rows with Vs/Vc >= target;
\* no such row: the coefficient is None
A11A_main(main_data, Vs_Vc) ==
    LET main_filtered == RowsGe(main_data, "k1", Vs_Vc)
    IN  IF main_filtered # <<>>
        THEN {main_row.C : main_row \in SortedFirst(main_filtered, "k1")}
        ELSE {NA}

A11A_lookup(tbl, Ab_Ac, Qb_Qc, Vs_Vc) ==
    {LET b == A11A_branch(tbl, Ab_Ac, Qb_Qc)
     IN  With2([b EXCEPT !.st = IF C_main = NA THEN "absent" ELSE @], C_main) :
        C_main \in A11A_main(tbl, Vs_Vc)}

A11A == Idle /\ \E t1, t2, t3 \in Targets : \E r \in A11A_lookup(table, t1, t2, t3) :
            Finish("A11A", <<t1, t2, t3>>, r)

\* ------------------------------------- inverse distance weighting (IDW)
\* The arithmetic is exact: a distance is kept as its square, the power is
\* even, and a value is the fraction num / den.
RECURSIVE Pow(_, _)
Pow(b, e) == IF e = 0 THEN 1 ELSE b * Pow(b, e - 1)

RECURSIVE SumOf(_, _)
SumOf(S, f) ==
    IF S = {} THEN 0
    ELSE LET x == CHOOSE y \in S : TRUE IN f[x] + SumOf(S \ {x}, f)

RECURSIVE ProdOf(_, _)
ProdOf(S, f) ==
    IF S = {} THEN 1
    ELSE LET x == CHOOSE y \in S : TRUE IN f[x] * ProdOf(S \ {x}, f)

\* the coefficients of the points, the neighbour counts k and the powers
Coefs == {1, 3}

Neighbours == 1..(MaxRows + 1)

Powers == {2, 4}

\* the targets of an interpolation: on and off the points
IdwTargets == Targets \X {0, 1}

\* the tables of points: the key vector (k1, k2) and the coefficient C
PointTables ==
    UNION {[1..n -> [k1 : Keys, k2 : Keys, k3 : {0}, C : Coefs]] : n \in 1..MaxRows}

InitIdw == InitWith(PointTables)

IdwResult(via, num, den, idx) == [st |-> "ok", via |-> via, num |-> num, den |-> den, idx |-> idx]

\* np.sum(diffs ** 2, axis=1): the squared distances to the target
dists2(pts, target) ==
    [i \in DOMAIN pts |->
        (pts[i].k1 - target[1]) * (pts[i].k1 - target[1])
        + (pts[i].k2 - target[2]) * (pts[i].k2 - target[2])]

\* an exact match that returns the last matching point
ExactMatchLast(vals, zero_mask) == vals[SetMax(zero_mask)]

\* vals[zero_mask][0]: the value of the first point at distance zero
ExactMatch(vals, zero_mask) == vals[SetMin(zero_mask)]

\* a selection that takes the first k_eff points of the table
argpartition_head(dists, k_eff) == {1..k_eff}

\* np.argpartition(dists, k_eff - 1)[:k_eff]: k_eff points none of which is
\* farther than a point left out; which of the points that tie is not fixed
argpartition(dists, k_eff) ==
    {idx \in SUBSET DOMAIN dists :
        /\ Cardinality(idx) = k_eff
        /\ \A i \in idx : \A j \in DOMAIN dists \ idx : dists[i] <= dists[j]}

\* weights left as they are: the weighted sum is divided by nothing, which
\* over the common denominator of the weights is the product of the d ** power
weights_unnormalised(w, dpow, idx) == ProdOf(idx, dpow)

\* weights.sum(), over the common denominator of the weights
weights_sum(w, dpow, idx) == SumOf(idx, w)

\* 1.0 / (dsel ** power), each over the common denominator: the product of the
\* others' d ** power
weights_of(dpow, idx) == [i \in idx |-> ProdOf(idx \ {i}, dpow)]

idw_interpolate_nd(df, target_vals, k, power) ==
    LET vals == Column(df, "C")
        dists == dists2(df, target_vals)
        zero_mask == {i \in DOMAIN dists : dists[i] = 0}
    IN  IF zero_mask # {}
        THEN {IdwResult("exact", ExactMatch(vals, zero_mask), 1, {})}
        ELSE IF \A i \in DOMAIN dists : dists[i] = 0
        THEN {IdwResult("mean", SumOf(DOMAIN vals, vals), Len(vals), DOMAIN vals)}
        ELSE LET k_eff == IF k < Len(dists) THEN k ELSE Len(dists)
             IN  {LET dpow == [i \in idx |-> Pow(dists[i], power \div 2)]
                      w == weights_of(dpow, idx)
                  IN  IdwResult("blend", SumOf(idx, [i \in idx |-> w[i] * vals[i]]),
                                weights_sum(w, dpow, idx), idx) :
                     idx \in argpartition(dists, k_eff)}

Idw == Idle /\ \E t \in IdwTargets, k \in Neighbours, power \in Powers :
           \E r \in idw_interpolate_nd(table, t, k, power) :
               /\ op' = "idw"
               /\ q' = t
               /\ par' = <<k, power>>
               /\ res' = r
               /\ UNCHANGED <<table, book, cache, loads, acc, shown>>

\* ------------------------------------------------------- data access
\* Python None of a raw input
None == 0 - 999

\* the master workbook DPL_data.xlsx read by load_all_sheets
Workbook == "DPL_data"

\* where the rows of a case identifier live: "file" a per-case Excel file,
\* "master" the Master Table sheet of the workbook, "none" nowhere
Stored(at, rows) == [at |-> at, rows |-> rows]

\* df.dropna(axis=1, how="all"): the columns that hold a value in some row
dropna_columns(df) ==
    IF df = <<>> THEN <<>>
    ELSE LET kept == {c \in DOMAIN df[1] : \E i \in DOMAIN df : df[i][c] # NA}
         IN  [i \in DOMAIN df |-> [c \in kept |-> df[i][c]]]

\* the body of get_case_table, run on a cache miss: the table, or <<>> when
\* KeyError is raised (which lru_cache does not keep)
Fetch(duct_id) ==
    IF book[duct_id].at = "none" THEN <<>>
    ELSE dropna_columns(book[duct_id].rows)

\* lru_cache holds a table for this argument
CachedNever(duct_id) == FALSE

Cached(duct_id) == cache[duct_id] # <<>>

\* get_case_table(duct_id) as its caller sees it
get_case_table(duct_id) == IF Cached(duct_id) THEN cache[duct_id] ELSE Fetch(duct_id)

\* the requests that miss the cache and go to the master workbook
ToMaster(ids) == {id \in ids : ~Cached(id) /\ book[id].at # "file"}

\* the caches after the requests of a pipeline; wr holds the cached frames the
\* pipeline assigned to in place
CacheAfter(ids, wr) ==
    [p \in DOMAIN cache |->
        IF p = Workbook
        THEN IF ~Cached(Workbook) /\ ToMaster(ids) # {} THEN <<"Master Table">>
             ELSE cache[Workbook]
        ELSE IF p \in DOMAIN wr THEN wr[p]
        ELSE IF p \in ids /\ ~Cached(p) THEN Fetch(p)
        ELSE cache[p]]

\* the calls of pd.read_excel, counted per path
LoadsAfter(ids) ==
    [p \in DOMAIN loads |->
        IF p = Workbook
        THEN IF ~Cached(Workbook) /\ ToMaster(ids) # {} THEN loads[p] + 1 ELSE loads[p]
        ELSE IF p \in ids /\ ~Cached(p) /\ book[p].at = "file" THEN loads[p] + 1
        ELSE loads[p]]

\* ------------------------------------------------------ result dicts
\* a numeric result as the fraction num / den; den = 0 is Python None
Num(n, d) == [num |-> n, den |-> d]

NoneValue == Num(0, 0)

NoEntry == "<no entry>"

\* the dict a pipeline returns: the numeric labels with their values, the
\* "Error" entry and the "Warning" entry
Dict(vals, err, warn) ==
    [st |-> "dict", vals |-> vals, Error |-> err, Warning |-> warn, exc |-> NoEntry]

\* the exception that leaves a pipeline
Raised(msg) ==
    [st |-> "raise", vals |-> <<>>, Error |-> NoEntry, Warning |-> NoEntry, exc |-> msg]

\* what a pipeline did: its return, the tables it asked for, in order, and
\* the cached frames it wrote to
Ret(out, ids) == [out |-> out, acc |-> ids, wr |-> <<>>]

StandardLabels ==
    {"Output 1: Velocity", "Output 2: Velocity Pressure",
     "Output 3: Loss Coefficient", "Output 4: Pressure Loss"}

AllNone(labels) == [l \in labels |-> NoneValue]

\* arithmetic on results
Mul(a, b) == Num(a.num * b.num, a.den * b.den)

Add(a, b) == Num(a.num * b.den + b.num * a.den, a.den * b.den)

Same(a, b) == a.den # 0 /\ b.den # 0 /\ a.num * b.den = b.num * a.den

\* ----------------------------------------------------------- display
\* the raw keys display_outputs_raw knows a standard label for
OUTPUT_KEY_TO_STANDARD_LABEL_MAP ==
    {"Output 1: Velocity", "Output 2: Vel. Pres @ V0 (in w.c.)",
     "Output 3: Loss Coefficient", "Output 4: Pressure Loss (in w.c.)",
     "Output 3: Loss Coefficient (nearest)", "Output 4: Loss Coefficient (bilinear)",
     "Output 5: Pressure Loss (in w.c., bilinear)",
     "Branch Velocity (ft/min)", "Branch Velocity Pressure (in w.c.)",
     "Branch Loss Coefficient", "Branch Pressure Loss (in w.c.)",
     "Main, Source Velocity (ft/min)", "Main, Converged Velocity (ft/min)",
     "Main, Source Velocity Pressure (in w.c.)",
     "Main, Converged Velocity Pressure (in w.c.)",
     "Main Loss Coefficient", "Main Pressure Loss (in w.c.)",
     "Branch 1 Velocity (ft/min)", "Branch 1 Velocity Pressure (in w.c.)",
     "Branch 1 Loss Coefficient", "Branch 1 Pressure Loss (in w.c.)",
     "Branch 2 Velocity (ft/min)", "Branch 2 Velocity Pressure (in w.c.)",
     "Branch 2 Loss Coefficient", "Branch 2 Pressure Loss (in w.c.)"}

ShowError(msg) == [kind |-> "error", text |-> msg, labels |-> {}]

\* display_outputs_raw that goes on to the values after the error label
display_outputs_raw_no_return(d) ==
    IF DOMAIN d.vals = {} /\ d.Error = NoEntry /\ d.Warning = NoEntry THEN NoShow
    ELSE LET mapped == DOMAIN d.vals \cap OUTPUT_KEY_TO_STANDARD_LABEL_MAP
         IN  IF d.Error # NoEntry
             THEN [kind |-> "error", text |-> d.Error, labels |-> mapped]
             ELSE IF mapped = {} THEN NoShow
             ELSE [kind |-> "results", text |-> "", labels |-> mapped]

\* display_outputs_raw: the frame is cleared; an empty dict shows nothing; an
\* "Error" entry shows the message alone; else the mapped labels are shown
display_outputs_raw(d) ==
    IF DOMAIN d.vals = {} /\ d.Error = NoEntry /\ d.Warning = NoEntry THEN NoShow
    ELSE IF d.Error # NoEntry THEN ShowError(d.Error)
    ELSE LET mapped == DOMAIN d.vals \cap OUTPUT_KEY_TO_STANDARD_LABEL_MAP
         IN  IF mapped = {} THEN NoShow
             ELSE [kind |-> "results", text |-> "", labels |-> mapped]

\* the try / except of store_inputs_and_calculate around the case function
Displayed(out) ==
    IF out.st = "raise" THEN ShowError("Calculation failed") ELSE display_outputs_raw(out)

\* store_inputs_and_calculate with the case function name on stored_values
Calculate(name, stored_values, r) ==
    /\ op' = name
    /\ q' = stored_values
    /\ par' = <<>>
    /\ res' = r.out
    /\ shown' = Displayed(r.out)
    /\ acc' = r.acc
    /\ cache' = CacheAfter(Range(r.acc) \cap DOMAIN book, r.wr)
    /\ loads' = LoadsAfter(Range(r.acc) \cap DOMAIN book)
    /\ UNCHANGED <<table, book>>

\* the tables of the given lengths over the key sets; the C of row i is c0 + i
CaseTables(lens, K1, K2, c0) ==
    UNION {
        {[i \in 1..n |-> [k1 |-> f[i].k1, k2 |-> f[i].k2, k3 |-> 0, C |-> c0 + i]] :
            f \in [1..n -> [k1 : K1, k2 : K2]]} : n \in lens}

\* a session starts with nothing cached and nothing read
InitBook(B) ==
    /\ book \in B
    /\ cache = [p \in DOMAIN book \cup {Workbook} |-> <<>>]
    /\ loads = [p \in DOMAIN book \cup {Workbook} |-> 0]
    /\ acc = <<>>
    /\ shown = NoShow
    /\ table = <<>>
    /\ op = "idle"
    /\ q = <<>>
    /\ par = <<>>
    /\ res = NoResult

\* ---------------------------------------- A12A1, A12A2: duct entries
\* Lengths are whole inches, the duct thickness t counts hundredths of an
\* inch, so t/D counts hundredths; areas of round sections are in units of
\* pi/4 in2 and velocities in the matching unit.  The inputs are drawn so
\* that every quotient the lookups use is a whole number.
THIN_PLATE_LIMIT == 5

\* a / b of two Python floats, for b # 0 dividing a
TrueDiv(a, b) == a \div b

\* except Exception as e: the four labels None, with the message
Failed(msg) == Dict(AllNone(StandardLabels), msg, NoEntry)

\* return {"Error": msg}
ErrorOnly(msg) == Dict(<<>>, msg, NoEntry)

\* the missing-input return: the four labels None and nothing else
Missing == Dict(AllNone(StandardLabels), NoEntry, NoEntry)

\* the returned dict of a single-path case
Outputs(V, loss_coefficient) ==
    LET vp == Mul(V, V)
    IN  Dict([l \in StandardLabels |->
                 CASE l = "Output 1: Velocity" -> V
                   [] l = "Output 2: Velocity Pressure" -> vp
                   [] l = "Output 3: Loss Coefficient" -> loss_coefficient
                   [] OTHER -> Mul(loss_coefficient, vp)],
             NoEntry, NoEntry)

\* the screen correction: n rounded down on A14A1; C1 of the first row
screen_C1(df_screen0, n) ==
    LET df_screen == dropna(df_screen0, {"k1", "C"})
        n_vals == unique(df_screen, "k1")
    IN  IF n_vals = <<>> THEN [st |-> "raise", C1 |-> NA]
        ELSE [st |-> "ok", C1 |-> RowsEq(df_screen, "k1", FloorMatch(n_vals, n))[1].C]

\* the perforated-plate correction on A14B1: the rows with n and t/D at or
\* below the inputs, the largest n among them, then the largest t/D
plate_C1(df_plate0, n, tD_plate) ==
    LET df_plate == dropna(df_plate0, {"k1", "k2", "C"})
        plate_match == RowsLe(RowsLe(df_plate, "k1", n), "k2", tD_plate)
    IN  IF plate_match = <<>> THEN [st |-> "error", C1 |-> NA]
        ELSE LET n_match == SetMax(Range(unique(plate_match, "k1")))
                 tD_sub == RowsEq(plate_match, "k1", n_match)
                 tD_match_plate == SetMax(Range(unique(tD_sub, "k2")))
             IN  [st |-> "ok", C1 |-> RowsEq(tD_sub, "k2", tD_match_plate)[1].C]

\* a thin-plate test that leaves the limit itself out
ThinPlateStrict(t_D) == t_D < THIN_PLATE_LIMIT

\* if t_D <= 0.05
ThinPlate(t_D) == t_D <= THIN_PLATE_LIMIT

\* the total loss coefficient of a duct entry
A12A_total(obstruction, t_D, C, C1) ==
    IF obstruction \in {"screen", "perforated plate"}
    THEN IF ThinPlate(t_D) THEN 1 + C1 ELSE C + C1
    ELSE C

\* the body of the try block once V, t/D and L/D are known
A12A_body(case, V, t_D, L_D, obstruction, n, plate_thickness, hole_diameter) ==
    LET base == A12A1_lookup(get_case_table(case), t_D, L_D)
        done(C1, ids) ==
            Ret(Outputs(V, Num(A12A_total(obstruction, t_D, base.C, C1), 1)), ids)
    IN  IF get_case_table(case) = <<>> \/ base.sel = <<>>
        THEN Ret(Failed("exception"), <<case>>)
        ELSE IF base.st # "ok"
        THEN Ret(ErrorOnly("No matching t/D and L/D pair found."), <<case>>)
        ELSE IF obstruction = "screen" /\ n # None
        THEN IF get_case_table("A14A1") = <<>>
             THEN Ret(ErrorOnly("A14A1 data (screen correction) not found."),
                      <<case, "A14A1">>)
             ELSE LET s == screen_C1(get_case_table("A14A1"), n)
                  IN  IF s.st = "raise" THEN Ret(Failed("exception"), <<case, "A14A1">>)
                      ELSE done(s.C1, <<case, "A14A1">>)
        ELSE IF obstruction = "perforated plate"
                /\ None \notin {n, plate_thickness, hole_diameter}
        THEN IF get_case_table("A14B1") = <<>>
             THEN Ret(ErrorOnly("A14B1 data (perforated plate correction) not found."),
                      <<case, "A14B1">>)
             ELSE IF hole_diameter = 0
             THEN Ret(Failed("division by zero"), <<case, "A14B1">>)
             ELSE LET pl == plate_C1(get_case_table("A14B1"), n,
                                     TrueDiv(plate_thickness, hole_diameter))
                  IN  IF pl.st = "error"
                      THEN Ret(ErrorOnly("No matching plate correction factor found."),
                               <<case, "A14B1">>)
                      ELSE done(pl.C1, <<case, "A14B1">>)
        ELSE done(0, <<case>>)

A12A1_outputs(sv) ==
    IF None \in {sv.t, sv.L, sv.D, sv.Q} THEN Ret(Missing, <<>>)
    ELSE IF sv.D = 0 THEN Ret(Failed("division by zero"), <<>>)
    ELSE A12A_body("A12A1", Num(sv.Q, sv.D * sv.D), TrueDiv(sv.t, sv.D),
                   TrueDiv(sv.L, sv.D), sv.obstruction, sv.n,
                   sv.plate_thickness, sv.hole_diameter)

\* the equivalent diameter 1 / (2 (H + W) / (H W)) as a fraction
D_equiv(H, W) == Num(H * W, 2 * (H + W))

A12A2_outputs(sv) ==
    IF None \in {sv.t, sv.L, sv.H, sv.W, sv.Q} THEN Ret(Missing, <<>>)
    ELSE IF sv.H * sv.W = 0 \/ sv.H + sv.W = 0 THEN Ret(Failed("division by zero"), <<>>)
    ELSE LET D == D_equiv(sv.H, sv.W)
         IN  A12A_body("A12A2", Num(sv.Q, sv.H * sv.W), TrueDiv(sv.t * D.den, D.num),
                       TrueDiv(sv.L * D.den, D.num), sv.obstruction, sv.n,
                       sv.plate_thickness, sv.hole_diameter)

Obstructions == {"none", "screen", "perforated plate"}

EntryInputs ==
    [t : {None, 4, 5, 6}, L : {2}, D : {None, 0, 1}, H : {4}, W : {4},
     Q : {None, 1}, obstruction : Obstructions, n : {None, 1},
     plate_thickness : {1}, hole_diameter : {None, 0, 1}]

RectEntryInputs ==
    [t : {4, 5, 6}, L : {None, 2}, D : {1}, H : {None, 0, 4}, W : {None, 4},
     Q : {1}, obstruction : Obstructions, n : {1},
     plate_thickness : {None, 1}, hole_diameter : {1}]

A12A1_calc == Idle /\ \E sv \in EntryInputs : Calculate("A12A1_outputs", sv, A12A1_outputs(sv))

A12A2_calc ==
    Idle /\ \E sv \in RectEntryInputs : Calculate("A12A2_outputs", sv, A12A2_outputs(sv))

\* the duct-entry tables: t/D at 2 and 6 hundredths, one L/D; the screen and
\* plate tables, which may be missing from the source
EntryBooks ==
    {[A12A1 |-> Stored("file", b1), A12A2 |-> Stored("master", b2), A14A1 |-> s, A14B1 |-> pl] :
        b1 \in CaseTables({2}, {2, 6}, {0}, 2),
        b2 \in CaseTables({1}, {2, 6}, {0}, 2),
        s \in {Stored("none", <<>>)}
              \cup {Stored("file", x) : x \in CaseTables({1}, {0, 1}, {0}, 0)},
        pl \in {Stored("none", <<>>)}
               \cup {Stored("master", x) : x \in CaseTables({1}, {1}, {0, 1}, 0)}}

InitEntry == InitBook(EntryBooks)

\* ------------------------------------- exits and hoods with a screen
\* Python None of a categorical input
NoneStr == "<None>"

\* obstruction.strip().lower()
strip_lower(x) == IF x = " Screen " THEN "screen" ELSE x

\* obstruction is a str that reads "screen" once stripped and lowered
IsScreen(obstruction) == obstruction # NoneStr /\ strip_lower(obstruction) = "screen"

\* a divisor that forgets the square
ScreenDivisorLinear(A_ratio) == IF A_ratio # 0 THEN A_ratio ELSE 1

\* A_ratio ** 2 if A_ratio != 0 else 1.0
ScreenDivisor(A_ratio) == IF A_ratio # 0 THEN A_ratio * A_ratio ELSE 1

\* A13C: rectangular conical exit; the angle counts units of 20 degrees
A13C_outputs(sv) ==
    IF None \in {sv.H, sv.Hs, sv.W, sv.angle, sv.Q} THEN Ret(Missing, <<>>)
    ELSE LET A == sv.H * sv.W
             As == sv.Hs * sv.W
             A_ratio == IF A # 0 THEN TrueDiv(As, A) ELSE 1
         IN  IF A = 0 THEN Ret(Failed("division by zero"), <<>>)
             ELSE LET V == Num(sv.Q, A)
                      base == A13C_lookup(get_case_table("A13C"), sv.angle, A_ratio)
                  IN  IF get_case_table("A13C") = <<>> \/ base.sel = <<>>
                      THEN Ret(Failed("exception"), <<"A13C">>)
                      ELSE IF base.st # "ok"
                      THEN Ret(ErrorOnly("No matching data in A13C."), <<"A13C">>)
                      ELSE IF IsScreen(sv.obstruction) /\ sv.n # None
                      THEN LET s == screen_C1(get_case_table("A14A1"), sv.n)
                           IN  IF get_case_table("A14A1") = <<>> \/ s.st = "raise"
                               THEN Ret(Failed("exception"), <<"A13C", "A14A1">>)
                               ELSE Ret(Outputs(V, Add(Num(base.C, 1),
                                                       Num(s.C1, ScreenDivisor(A_ratio)))),
                                        <<"A13C", "A14A1">>)
                      ELSE Ret(Outputs(V, Num(base.C, 1)), <<"A13C">>)

ScreenChoices == {NoneStr, "none", " Screen "}

A13CInputs ==
    [H : {None, 0, 1}, Hs : {None, 0, 2}, W : {1}, angle : {None, 1, 2},
     Q : {None, 1}, obstruction : ScreenChoices, n : {None, 1}]

A13C_calc == Idle /\ \E sv \in A13CInputs : Calculate("A13C_outputs", sv, A13C_outputs(sv))

RECURSIVE sorted(_)
\* sorted(values) of distinct values
sorted(S) == IF S = {} THEN <<>> ELSE <<SetMin(S)>> \o sorted(S \ {SetMin(S)})

A13B_ANGLE_LIMIT == 45

\* the angle counts units of 45 degrees
Deg13B(t) == A13B_ANGLE_LIMIT * t

\* math.degrees(2 atan((Ds - D) / (2 L))) in units of 45 degrees, L # 0, for
\* the geometries drawn: a straight exit, and a cone whose radius grows or
\* shrinks by its length
ConeAngle(Ds, D, L) ==
    CASE Ds - D = 0 -> 0
      [] Ds - D = 2 * L -> 2
      [] D - Ds = 2 * L -> 0 - 2

\* A13B: the angle rounded up, As/A rounded down below 45 degrees and to the
\* nearest from 45 degrees on, each on the whole table
A13B_lookup(tbl, angle, A_ratio) ==
    LET df == dropna(tbl, {"k1", "k2", "C"})
        angle_vals == sorted(Range(unique(df, "k1")))
        ratio_vals == sorted(Range(unique(df, "k2")))
    IN  IF df = <<>> THEN Result("error", NA, <<>>, <<Ids(df)>>)
        ELSE LET angle_match == CeilMatch(angle_vals, angle)
                 A_ratio_match == IF Deg13B(angle) < A13B_ANGLE_LIMIT
                                  THEN FloorMatch(ratio_vals, A_ratio)
                                  ELSE NearestMatch(ratio_vals, A_ratio)
                 matched_row == RowsEq(RowsEq(df, "k1", angle_match), "k2", A_ratio_match)
             IN  IF matched_row = <<>>
                 THEN Result("error", NA, <<angle_match, A_ratio_match>>, <<Ids(df), {}>>)
                 ELSE Result("ok", matched_row[1].C, <<angle_match, A_ratio_match>>,
                             <<Ids(df), Ids(matched_row)>>)

\* A13B: round conical exit; V is computed after the lookups
A13B_outputs(sv) ==
    IF None \in {sv.L, sv.D, sv.Ds, sv.Q} THEN Ret(Missing, <<>>)
    ELSE IF sv.L = 0 THEN Ret(Failed("division by zero"), <<>>)
    ELSE LET A == sv.D * sv.D
             As == sv.Ds * sv.Ds
             A_ratio == IF A > 0 THEN TrueDiv(As, A) ELSE 1
             base == A13B_lookup(get_case_table("A13B"), ConeAngle(sv.Ds, sv.D, sv.L), A_ratio)
             screen == IsScreen(sv.obstruction) /\ sv.n # None
             ids == IF screen THEN <<"A13B", "A14A1">> ELSE <<"A13B">>
             s == screen_C1(get_case_table("A14A1"), sv.n)
         IN  IF get_case_table("A13B") = <<>> \/ base.sel = <<>>
             THEN Ret(Failed("exception"), <<"A13B">>)
             ELSE IF base.st # "ok"
             THEN Ret(ErrorOnly("No matching angle and As/A pair found."), <<"A13B">>)
             ELSE IF screen /\ (get_case_table("A14A1") = <<>> \/ s.st = "raise")
             THEN Ret(Failed("exception"), ids)
             ELSE IF A = 0 THEN Ret(Failed("division by zero"), ids)
             ELSE Ret(Outputs(Num(sv.Q, A),
                              IF screen
                              THEN Add(Num(base.C, 1), Num(s.C1, ScreenDivisor(A_ratio)))
                              ELSE Num(base.C, 1)), ids)

\* math.tan(math.radians(theta) / 2) for the angles drawn: 0 and 90 degrees
TanHalf(theta) == IF theta = 90 THEN 1 ELSE 0

\* A12F: conical diverging, round
A12F_outputs(sv) ==
    IF None \in {sv.L, sv.D_geom, sv.Ds, sv.theta, sv.Q} THEN Ret(Missing, <<>>)
    ELSE IF TanHalf(sv.theta) = 0 THEN Ret(Failed("division by zero"), <<>>)
    ELSE LET D_up == sv.Ds - TrueDiv(2 * sv.D_geom, TanHalf(sv.theta))
         IN  IF D_up <= 0
             THEN Ret(ErrorOnly("Invalid geometry: D_up is non-positive."), <<>>)
             ELSE LET A_up == D_up * D_up
                      V == Num(sv.Q, A_up)
                      L_D == TrueDiv(sv.L, D_up)
                      df == dropna(get_case_table("A12F"), {"k1", "k2", "C"})
                      LD_vals == unique(df, "k1")
                      matched_row == RowsEq(RowsEq(df, "k1", FloorMatch(LD_vals, L_D)),
                                            "k2", sv.theta)
                      screen == sv.obstruction = "screen" /\ sv.n # None
                      ids == IF screen THEN <<"A12F", "A14A1">> ELSE <<"A12F">>
                      s == screen_C1(get_case_table("A14A1"), sv.n)
                      A_s == sv.Ds * sv.Ds
                  IN  IF get_case_table("A12F") = <<>> \/ LD_vals = <<>>
                      THEN Ret(Failed("exception"), <<"A12F">>)
                      ELSE IF matched_row = <<>>
                      THEN Ret(ErrorOnly("No matching L/D and ANGLE pair found."), <<"A12F">>)
                      ELSE IF ~screen THEN Ret(Outputs(V, Num(matched_row[1].C, 1)), ids)
                      ELSE IF get_case_table("A14A1") = <<>> \/ s.st = "raise" \/ A_s = 0
                      THEN Ret(Failed("exception"), ids)
                      ELSE Ret(Outputs(V, Add(Num(matched_row[1].C, 1),
                                              Num(s.C1 * A_up * A_up, A_s * A_s))), ids)

\* the configuration column of A12G as a code
ConfigCode(config_key) == IF config_key = "round hood" THEN 0 ELSE 1

\* A12G: hoods; the sides of a rectangular hood are in units of sqrt(pi)/2
\* inches, so that its area is in the unit of the round areas
A12G_outputs(sv) ==
    IF sv.profile \notin {"round hood", "square or rectangular hood"}
    THEN Ret(ErrorOnly("Invalid profile."), <<>>)
    ELSE IF \/ sv.profile = "round hood" /\ None \in {sv.D1, sv.D, sv.angle, sv.Q}
            \/ sv.profile # "round hood" /\ None \in {sv.H1, sv.W1, sv.D, sv.angle, sv.Q}
    THEN Ret(Missing, <<>>)
    ELSE LET A == sv.D * sv.D
             A1 == IF sv.profile = "round hood" THEN sv.D1 * sv.D1 ELSE sv.H1 * sv.W1
             config_key == IF sv.profile = "round hood" THEN "round hood" ELSE "rect hood"
             df == RowsEq(RowsEq(get_case_table("A12G"), "k1", ConfigCode(config_key)),
                          "k2", sv.angle)
             screen == sv.obstruction = "screen" /\ sv.n # None
             ids == IF screen THEN <<"A12G", "A14A1">> ELSE <<"A12G">>
             s == screen_C1(get_case_table("A14A1"), sv.n)
         IN  IF A = 0 THEN Ret(Failed("division by zero"), <<>>)
             ELSE IF get_case_table("A12G") = <<>> THEN Ret(Failed("KeyError"), <<"A12G">>)
             ELSE IF df = <<>>
             THEN Ret(ErrorOnly("No matching data found for A12G."), <<"A12G">>)
             ELSE IF ~screen THEN Ret(Outputs(Num(sv.Q, A), Num(df[1].C, 1)), ids)
             ELSE IF get_case_table("A14A1") = <<>> \/ s.st = "raise" \/ A1 = 0
             THEN Ret(Failed("exception"), ids)
             ELSE Ret(Outputs(Num(sv.Q, A),
                              Add(Num(df[1].C, 1), Num(s.C1 * A * A, A1 * A1))), ids)

A13BInputs ==
    [L : {None, 0, 1}, D : {None, 2}, Ds : {None, 0, 2, 4}, Q : {1},
     obstruction : {"none", "screen"}, n : {None, 1}]
    \cup [L : {1}, D : {0}, Ds : {0}, Q : {1}, obstruction : {"screen"}, n : {1}]

A12FInputs ==
    [L : {None, 4}, D_geom : {None, 0, 1}, Ds : {None, 2, 4}, theta : {None, 0, 90},
     Q : {1}, obstruction : {"none", "screen"}, n : {None, 1}]

A12GInputs ==
    [profile : {"round hood"}, D1 : {None, 0, 2}, H1 : {None}, W1 : {None},
     D : {None, 0, 1}, angle : {None, 1}, Q : {1},
     obstruction : {"none", "screen"}, n : {None, 1}]
    \cup [profile : {"square or rectangular hood"}, D1 : {None}, H1 : {None, 2},
          W1 : {None, 0, 2}, D : {1}, angle : {1}, Q : {None, 1},
          obstruction : {"screen"}, n : {1}]
    \cup [profile : {"other"}, D1 : {2}, H1 : {None}, W1 : {None}, D : {1}, angle : {1},
          Q : {1}, obstruction : {"none"}, n : {None}]

A13B_calc == Idle /\ \E sv \in A13BInputs : Calculate("A13B_outputs", sv, A13B_outputs(sv))

A12F_calc == Idle /\ \E sv \in A12FInputs : Calculate("A12F_outputs", sv, A12F_outputs(sv))

A12G_calc == Idle /\ \E sv \in A12GInputs : Calculate("A12G_outputs", sv, A12G_outputs(sv))

\* the exit and hood tables and the screen table, which may be missing
ScreenBooks ==
    {[A13C |-> Stored("file", a), A13B |-> Stored("file", b), A12F |-> Stored("master", f),
      A12G |-> Stored("master", g), A14A1 |-> s] :
        a \in CaseTables({1}, {1}, {0, 2}, 2),
        b \in CaseTables({1}, {2}, {0, 4}, 2),
        f \in CaseTables({1}, {1}, {60, 90}, 2),
        g \in CaseTables({1}, {0, 1}, {1}, 2),
        s \in {Stored("none", <<>>)}
              \cup {Stored("file", x) : x \in CaseTables({1}, {1}, {0}, 0)}}

InitScreen == InitBook(ScreenBooks)

\* ------------------------------------- junctions: branch and main paths
\* the PATH column of a junction table is held in k3
Branch == 0

Main == 1

\* df[df["PATH"] == path]; a missing PATH compares false
PathRows(df, path) == SelectSeq(df, LAMBDA r : r.k3 = path)

\* the ten labels of a case with a branch and a main path
BranchMainLabels ==
    {"Branch Velocity (ft/min)", "Branch Velocity Pressure (in w.c.)",
     "Branch Loss Coefficient", "Branch Pressure Loss (in w.c.)",
     "Main, Source Velocity (ft/min)", "Main, Converged Velocity (ft/min)",
     "Main, Source Velocity Pressure (in w.c.)",
     "Main, Converged Velocity Pressure (in w.c.)",
     "Main Loss Coefficient", "Main Pressure Loss (in w.c.)"}

\* the returned dict of a junction: the branch loss is on the branch velocity
\* pressure, the main loss on the source velocity pressure
BranchMain(Vb, Cb, Vs, Vc, Cm) ==
    Dict([l \in BranchMainLabels |->
             CASE l = "Branch Velocity (ft/min)" -> Vb
               [] l = "Branch Velocity Pressure (in w.c.)" -> Mul(Vb, Vb)
               [] l = "Branch Loss Coefficient" -> Cb
               [] l = "Branch Pressure Loss (in w.c.)" -> Mul(Cb, Mul(Vb, Vb))
               [] l = "Main, Source Velocity (ft/min)" -> Vs
               [] l = "Main, Converged Velocity (ft/min)" -> Vc
               [] l = "Main, Source Velocity Pressure (in w.c.)" -> Mul(Vs, Vs)
               [] l = "Main, Converged Velocity Pressure (in w.c.)" -> Mul(Vc, Vc)
               [] l = "Main Loss Coefficient" -> Cm
               [] OTHER -> Mul(Cm, Mul(Vs, Vs))],
         NoEntry, NoEntry)

\* A10B main: the row of the smallest Qb/Qc >= target, or of the maximum
A10B_main(main_data, Qb_Qc_main) ==
    LET main_q_data == dropna(main_data, {"k1", "C"})
        valid_main_q == RowsGe(main_q_data, "k1", Qb_Qc_main)
    IN  IF main_q_data = <<>> THEN {NA}
        ELSE {r.C : r \in IF valid_main_q # <<>> THEN SortedFirst(valid_main_q, "k1")
                                                 ELSE SortedLast(main_q_data, "k1")}

\* A10B: round wye, converging.  Qb/Qc counts tenths, Ab/Ac hundredths.
\* Nothing is caught: a KeyError, ValueError, ZeroDivisionError or IndexError
\* leaves the function.  The returns it can make, one per order of tied rows.
A10B_outputs(sv) ==
    IF None \in {sv.D_main, sv.D_branch, sv.Q_source, sv.Q_branch}
    THEN {Ret(Dict(AllNone(BranchMainLabels), NoEntry, NoEntry), <<>>)}
    ELSE LET df == get_case_table("A10B")
             leaves(msg) == {Ret(Raised(msg), <<"A10B">>)}
             Q_converged == sv.Q_source + sv.Q_branch
         IN  IF df = <<>> THEN leaves("KeyError: no data found for duct_id")
             ELSE IF "k3" \notin DOMAIN df[1] THEN leaves("KeyError: PATH")
             ELSE IF PathRows(df, Branch) = <<>> \/ PathRows(df, Main) = <<>>
             THEN leaves("ValueError: both 'branch' and 'main' rows")
             ELSE IF sv.D_branch = 0 \/ sv.D_main = 0 \/ Q_converged = 0
             THEN leaves("ZeroDivisionError")
             ELSE IF ~({"k1", "k2", "C"} \subseteq DOMAIN df[1]) THEN leaves("KeyError: column")
             ELSE LET Qb_Qc == TrueDiv(10 * sv.Q_branch, Q_converged)
                      Ab_Ac == TrueDiv(100 * sv.D_branch * sv.D_branch,
                                       sv.D_main * sv.D_main)
                      b == A10B_lookup(PathRows(df, Branch), Qb_Qc, Ab_Ac)
                      m == A10B_main(PathRows(df, Main), Qb_Qc)
                  IN  {IF r.st = "raise" \/ Cm = NA THEN Ret(Raised("IndexError"), <<"A10B">>)
                       ELSE Ret(BranchMain(Num(sv.Q_branch, sv.D_branch * sv.D_branch),
                                           Num(r.C, 1),
                                           Num(sv.Q_source, sv.D_main * sv.D_main),
                                           Num(Q_converged, sv.D_main * sv.D_main),
                                           Num(Cm, 1)),
                                <<"A10B">>) : r \in b, Cm \in m}

\* float("inf")
Inf == 10000

\* the Qb/Qc Diff column: the distance when Qb/Qc <= 0.7, else the excess of
\* the rows at or above the target and inf for the rows below
QbQcDiff(x, Qb_Qc) ==
    IF Qb_Qc <= 7 THEN Abs(x - Qb_Qc)
    ELSE IF x >= Qb_Qc THEN x - Qb_Qc ELSE Inf

Lex3Le(a, b) ==
    \/ a[1] < b[1]
    \/ a[1] = b[1] /\ (a[2] < b[2] \/ (a[2] = b[2] /\ a[3] <= b[3]))

\* sort_values on the three Diff columns (a stable sort) and iloc[0]
A11V_row(path_data, Ab_As, Ab_Ac, Qb_Qc) ==
    LET diff(r) == <<Abs(r.k1 - Ab_As), Abs(r.k2 - Ab_Ac), QbQcDiff(r.k4, Qb_Qc)>>
        m == {i \in DOMAIN path_data : \A j \in DOMAIN path_data :
                 Lex3Le(diff(path_data[i]), diff(path_data[j]))}
    IN  path_data[SetMin(m)]

\* A11V: the rows of the master frame `data` with this ID, none when the ID
\* is not in its index
data_loc(duct_id) == IF book[duct_id].at = "master" THEN book[duct_id].rows ELSE <<>>

\* A11V: rectangular tee.  Ab/As and Ab/Ac count halves, Qb/Qc tenths; the
\* table is read from the master frame passed in by the caller.
A11V_outputs(inputs) ==
    IF None \in {inputs.H, inputs.W_c, inputs.W_b, inputs.W_s, inputs.Q_c, inputs.Q_b}
    THEN Ret(ErrorOnly("Missing input values."), <<>>)
    ELSE LET A_c_in2 == inputs.H * inputs.W_c
             A_s_in2 == inputs.H * inputs.W_s
             A_b_in2 == inputs.H * inputs.W_b
         IN  IF A_c_in2 = 0 \/ A_b_in2 = 0 \/ A_s_in2 = 0 \/ inputs.Q_c = 0
             THEN Ret(ErrorOnly("division by zero"), <<>>)
             ELSE LET Ab_As == TrueDiv(2 * A_b_in2, A_s_in2)
                      Ab_Ac == TrueDiv(2 * A_b_in2, A_c_in2)
                      Qb_Qc == TrueDiv(10 * inputs.Q_b, inputs.Q_c)
                      branch_data == PathRows(data_loc("A11V"), Branch)
                      main_data == PathRows(data_loc("A11V"), Main)
                  IN  IF data_loc("A11V") = <<>>
                      THEN Ret(ErrorOnly("A11V branch data not found."), <<"data">>)
                      ELSE IF branch_data = <<>> \/ main_data = <<>>
                      THEN Ret(ErrorOnly("single positional indexer is out-of-bounds"),
                               <<"data">>)
                      ELSE Ret(BranchMain(
                                   Num(inputs.Q_b, A_b_in2),
                                   Num(A11V_row(branch_data, Ab_As, Ab_Ac, Qb_Qc).C, 1),
                                   Num(inputs.Q_c - inputs.Q_b, A_s_in2),
                                   Num(inputs.Q_c, A_c_in2),
                                   Num(A11V_row(main_data, Ab_As, Ab_Ac, Qb_Qc).C, 1)),
                               <<"data">>)

\* ------------------------------------------ A7H1: mitered elbow, vanes
\* the four labels as A7H1 spells them
A7H1Labels ==
    {"Output 1: Velocity", "Output 2: Vel. Pres @ V0 (in w.c.)",
     "Output 3: Loss Coefficient", "Output 4: Pressure Loss (in w.c.)"}

\* a return of A7H1: the four labels and, on a failure, the "Error" entry
A7H1_dict(V, vp, C, pressure_loss, err) ==
    Dict([l \in A7H1Labels |->
             CASE l = "Output 1: Velocity" -> V
               [] l = "Output 2: Vel. Pres @ V0 (in w.c.)" -> vp
               [] l = "Output 3: Loss Coefficient" -> C
               [] OTHER -> pressure_loss],
         err, NoEntry)

A7H1_none(err) == A7H1_dict(NoneValue, NoneValue, NoneValue, NoneValue, err)

\* the rows whose col is nearest to value
subset_by_nearest(df, col, value) ==
    IF df = <<>> THEN <<>>
    ELSE LET min_diff == SetMin({Abs(df[i][col] - value) : i \in DOMAIN df})
         IN  SelectSeq(df, LAMBDA r : Abs(r[col] - value) = min_diff)

\* R in k1, S in k2, "V, fpm" in k3.  H, W and Q are checked first; that
\* neither R nor S was entered is found after the table was loaded.
A7H1_outputs(sv) ==
    IF None \in {sv.H, sv.W, sv.Q}
    THEN Ret(A7H1_none("Missing required inputs: H, W, and Q are required."), <<>>)
    ELSE LET R_in == IF sv.R # None /\ sv.R > 0 THEN sv.R ELSE None
             S_in == IF sv.S # None /\ sv.S > 0 /\ R_in = None THEN sv.S ELSE None
             area_in2 == sv.W * sv.H
             V == Num(sv.Q, area_in2)
             tbl == get_case_table("A7H1")
             df == dropna(tbl, {"k1", "k2", "k3", "C"})
             dim_subset == IF R_in # None THEN subset_by_nearest(df, "k1", R_in)
                           ELSE subset_by_nearest(df, "k2", S_in)
             vel_values == Range(unique(dim_subset, "k3"))
             V_match == IF sv.Q <= SetMin(vel_values) * area_in2 THEN SetMin(vel_values)
                        ELSE IF sv.Q >= SetMax(vel_values) * area_in2 THEN SetMax(vel_values)
                        ELSE SetMax({v \in vel_values : v * area_in2 <= sv.Q})
             row == RowsEq(dim_subset, "k3", V_match)
         IN  IF area_in2 <= 0 THEN Ret(A7H1_none("Failed to compute velocity"), <<>>)
             ELSE IF tbl = <<>> \/ ~({"k1", "k2", "k3", "C"} \subseteq DOMAIN tbl[1])
             THEN Ret(A7H1_none("KeyError"), <<"A7H1">>)
             ELSE IF R_in = None /\ S_in = None
             THEN Ret(A7H1_none("You must enter either R or S (at least one must be > 0)."),
                      <<"A7H1">>)
             ELSE IF dim_subset = <<>>
             THEN Ret(A7H1_none("No matching R/S geometry found in A7H1 table."), <<"A7H1">>)
             ELSE IF vel_values = {}
             THEN Ret(A7H1_dict(V, NoneValue, NoneValue, NoneValue,
                                "No velocity values found in A7H1 table."), <<"A7H1">>)
             ELSE IF row = <<>>
             THEN Ret(A7H1_dict(V, NoneValue, NoneValue, NoneValue,
                                "No row found for matched velocity"), <<"A7H1">>)
             ELSE Ret(A7H1_dict(V, Mul(V, V), Num(row[1].C, 1),
                                Mul(Num(row[1].C, 1), Mul(V, V)), NoEntry), <<"A7H1">>)

\* ------------------------------------------------ the sessions checked
A10BInputs ==
    [D_main : {None, 0, 2}, D_branch : {None, 0, 1, 2},
     Q_source : {None, 0, 1}, Q_branch : {None, 0, 1}]

A11VInputs ==
    [H : {None, 0, 1}, W_c : {None, 2}, W_b : {1}, W_s : {None, 1, 2},
     Q_c : {None, 0, 10}, Q_b : {None, 5, 8}]

A7H1Inputs ==
    [H : {None, 0, 1}, W : {None, 1}, R : {None, 0, 2}, S : {None, 3}, Q : {None, 1, 3}]

A10B_calc ==
    Idle /\ \E sv \in A10BInputs : \E r \in A10B_outputs(sv) : Calculate("A10B_outputs", sv, r)

A11V_calc == Idle /\ \E sv \in A11VInputs : Calculate("A11V_outputs", sv, A11V_outputs(sv))

A7H1_calc == Idle /\ \E sv \in A7H1Inputs : Calculate("A7H1_outputs", sv, A7H1_outputs(sv))

\* junction tables of three rows; the last row of A10B may lack its C, and the
\* PATH column may be empty throughout or hold one path only
A10BTables ==
    {<<[k1 |-> a, k2 |-> 25, k3 |-> p1, C |-> 2], [k1 |-> 5, k2 |-> 100, k3 |-> p2, C |-> 3],
       [k1 |-> 5, k2 |-> NA, k3 |-> p3, C |-> c]>> :
        a \in {0, 5}, p1 \in {Branch, NA}, p2 \in {Branch, Main, NA}, p3 \in {Main, NA},
        c \in {4, NA}}

\* the A11V rows of the master frame carry Qb/Qc in k4
A11VTables ==
    {<<[k1 |-> a, k2 |-> 1, k3 |-> Branch, k4 |-> 5, C |-> 2],
       [k1 |-> 1, k2 |-> 1, k3 |-> p, k4 |-> x, C |-> 3],
       [k1 |-> 2, k2 |-> 1, k3 |-> Main, k4 |-> 9, C |-> 4]>> :
        a \in {1, 2}, p \in {Branch, Main}, x \in {5, 9}}

A7H1Tables ==
    {<<[k1 |-> r1, k2 |-> 3, k3 |-> v1, C |-> 1], [k1 |-> r2, k2 |-> 3, k3 |-> 2, C |-> c]>> :
        r1 \in {1, 4}, r2 \in {1, 4}, v1 \in {0, 2}, c \in {2, NA}}

\* the tables a session starts from: one table of each case, varied one case
\* at a time; a case may also be missing from the source
MissingBase ==
    [A13C |-> Stored("file", <<[k1 |-> 1, k2 |-> 2, k3 |-> 0, C |-> 3]>>),
     A14A1 |-> Stored("master", <<[k1 |-> 1, k2 |-> 0, k3 |-> 0, C |-> 1]>>),
     A10B |-> Stored("file", <<[k1 |-> 5, k2 |-> 25, k3 |-> Branch, C |-> 2],
                                [k1 |-> 5, k2 |-> 100, k3 |-> Main, C |-> 3]>>),
     A11V |-> Stored("master", <<[k1 |-> 1, k2 |-> 1, k3 |-> Branch, k4 |-> 5, C |-> 2],
                                  [k1 |-> 1, k2 |-> 1, k3 |-> Main, k4 |-> 5, C |-> 3]>>),
     A7H1 |-> Stored("master", <<[k1 |-> 1, k2 |-> 3, k3 |-> 2, C |-> 1]>>)]

MissingBooks ==
    {[MissingBase EXCEPT !.A10B = Stored("file", x)] : x \in A10BTables}
    \cup {[MissingBase EXCEPT !.A11V = Stored("master", x)] : x \in A11VTables}
    \cup {[MissingBase EXCEPT !.A7H1 = Stored("master", x)] : x \in A7H1Tables}
    \cup {[MissingBase EXCEPT ![id] = Stored("none", <<>>)] :
             id \in {"A13C", "A14A1", "A10B", "A11V", "A7H1"}}

InitMissing == InitBook(MissingBooks)

\* ------------------------------------------------- results put on show
\* the dicts a case function may hand to display_outputs_raw: any of the four
\* labels, each None or a number, with or without "Error" and "Warning"
RawResults ==
    {Dict(v, e, w) :
        v \in UNION {[L -> {NoneValue, Num(1, 1)}] : L \in SUBSET A7H1Labels},
        e \in {NoEntry, "No velocity values found in A7H1 table."},
        w \in {NoEntry, "Branch height exceeds main height."}}

\* display_outputs_raw called on a returned dict
Show == Idle /\ \E d \in RawResults : Calculate("display_outputs_raw", <<>>, Ret(d, <<>>))

InitDisplay == InitBook({MissingBase})

\* --------------------------------- junctions with a geometry warning
\* a limit test that lets the limit itself pass
OutsideLimitStrict(branch, main) == branch > main - 2

\* D_branch >= (W_main - 2), H_branch >= H_main - 2
OutsideLimit(branch, main) == branch >= main - 2

\* result["Warning"] = message, when there is one
WithWarning(result, message) == [result EXCEPT !.Warning = message]

\* the NAME "Tee or Wye, Main" of a row of A11A, held in k2
TeeOrWyeMain == 1

\* A11U: rectangular main, round branch.  Vb/Vc counts eighths and Vs/Vc
\* halves; the branch area is in units of pi/4 in2.  The returns it can make,
\* one per order of tied rows.
A11U_outputs(sv) ==
    IF None \in {sv.W_main, sv.H_main, sv.D_branch, sv.Qc, sv.Qb}
    THEN {Ret(ErrorOnly("Missing input values."), <<>>)}
    ELSE LET warning_message ==
                 IF OutsideLimit(sv.D_branch, sv.W_main)
                 THEN "Warning: Branch diameter should be at least 2 inches smaller than main width."
                 ELSE NoEntry
             A_main == sv.W_main * sv.H_main
             A_branch == sv.D_branch * sv.D_branch
             Vb_Vc == TrueDiv(8 * sv.Qb * A_main, sv.Qc * A_branch)
             Vs_Vc == TrueDiv(2 * (sv.Qc - sv.Qb), sv.Qc)
             tblU == get_case_table("A11U")
             branch_data == PathRows(tblU, Branch)
             tblA == get_case_table("A11A")
             main_data == SelectSeq(tblA, LAMBDA r : r.k3 = Main /\ r.k2 = TeeOrWyeMain)
         IN  IF A_main = 0 \/ A_branch = 0 \/ sv.Qc = 0
             THEN {Ret(ErrorOnly("Error in A11U: division by zero"), <<>>)}
             ELSE IF tblU = <<>> \/ "k3" \notin DOMAIN tblU[1]
             THEN {Ret(ErrorOnly("A11U branch data not found."), <<"A11U">>)}
             ELSE IF branch_data = <<>>
             THEN {Ret(ErrorOnly("No branch data found for A11U."), <<"A11U">>)}
             ELSE IF ~({"k1", "C"} \subseteq DOMAIN tblU[1])
             THEN {Ret(ErrorOnly("Error in A11U: KeyError"), <<"A11U">>)}
             ELSE IF tblA = <<>> \/ ~({"k2", "k3"} \subseteq DOMAIN tblA[1])
             THEN {Ret(ErrorOnly("A11A main data not found."), <<"A11U", "A11A">>)}
             ELSE IF main_data = <<>>
             THEN {Ret(ErrorOnly("No main data found for A11A (Tee or Wye, Main)."),
                       <<"A11U", "A11A">>)}
             ELSE IF ~({"k1", "C"} \subseteq DOMAIN tblA[1])
             THEN {Ret(ErrorOnly("Error in A11U: KeyError"), <<"A11U", "A11A">>)}
             ELSE {Ret(WithWarning(BranchMain(Num(sv.Qb, A_branch), Num(b.C, 1),
                                              Num(sv.Qc - sv.Qb, A_main),
                                              Num(sv.Qc, A_main), Num(m.C, 1)),
                                   warning_message),
                       <<"A11U", "A11A">>) :
                      b \in A11U_lookup(branch_data, Vb_Vc),
                      m \in A11U_lookup(main_data, Vs_Vc)}

\* abs(x - target) if x >= target else inf; a missing x compares false
DirectionalDiff(x, target) == IF x # NA /\ x >= target THEN x - target ELSE Inf

\* A11Q branch: sort_values on the two Diff columns (a stable sort) and iloc[0]
A11Q_branch(branch_data, Vb_Vc, Qb_Qc) ==
    LET diff(r) == <<DirectionalDiff(r.k1, Vb_Vc), DirectionalDiff(r.k2, Qb_Qc), 0>>
        m == {i \in DOMAIN branch_data : \A j \in DOMAIN branch_data :
                 Lex3Le(diff(branch_data[i]), diff(branch_data[j]))}
    IN  branch_data[SetMin(m)]

\* A11Q: rectangular diverging tee; the main path is looked up in A11R.
\* Vb/Vc, Qb/Qc and Vs/Vc count halves.
A11Q_outputs(sv) ==
    IF None \in {sv.H_main, sv.W_main, sv.H_branch, sv.W_branch, sv.Qc, sv.Qb}
    THEN {Ret(ErrorOnly("Missing input values."), <<>>)}
    ELSE LET height_warning ==
                 IF OutsideLimit(sv.H_branch, sv.H_main)
                 THEN "Warning: Branch height should be at least 2 inches smaller than main height."
                 ELSE NoEntry
             A_main == sv.H_main * sv.W_main
             A_branch == sv.H_branch * sv.W_branch
             Vb_Vc == TrueDiv(2 * sv.Qb * A_main, sv.Qc * A_branch)
             Qb_Qc == TrueDiv(2 * sv.Qb, sv.Qc)
             Vs_Vc == TrueDiv(2 * (sv.Qc - sv.Qb), sv.Qc)
             tblQ == get_case_table("A11Q")
             branch_data == PathRows(tblQ, Branch)
             tblR == get_case_table("A11R")
             main_data == PathRows(tblR, Main)
         IN  IF A_main = 0 \/ A_branch = 0 \/ sv.Qc = 0
             THEN {Ret(ErrorOnly("float division by zero"), <<>>)}
             ELSE IF tblQ = <<>> \/ "k3" \notin DOMAIN tblQ[1]
             THEN {Ret(ErrorOnly("A11Q branch data not found."), <<"A11Q">>)}
             ELSE IF branch_data = <<>>
             THEN {Ret(ErrorOnly("No branch data found for A11Q."), <<"A11Q">>)}
             ELSE IF ~({"k1", "k2", "C"} \subseteq DOMAIN tblQ[1])
             THEN {Ret(ErrorOnly("KeyError"), <<"A11Q">>)}
             ELSE IF tblR = <<>> \/ "k3" \notin DOMAIN tblR[1]
             THEN {Ret(ErrorOnly("A11R main data not found."), <<"A11Q", "A11R">>)}
             ELSE IF main_data = <<>>
             THEN {Ret(ErrorOnly("No main data found for A11R (main path)."),
                       <<"A11Q", "A11R">>)}
             ELSE IF ~({"k1", "C"} \subseteq DOMAIN tblR[1])
             THEN {Ret(ErrorOnly("KeyError"), <<"A11Q", "A11R">>)}
             ELSE {Ret(WithWarning(BranchMain(Num(sv.Qb, A_branch),
                                              Num(A11Q_branch(branch_data, Vb_Vc, Qb_Qc).C, 1),
                                              Num(sv.Qc - sv.Qb, A_main),
                                              Num(sv.Qc, A_main), Num(m.C, 1)),
                                   height_warning),
                       <<"A11Q", "A11R">>) :
                      m \in A11U_lookup(main_data, Vs_Vc)}

A11UInputs ==
    [W_main : {None, 0, 2, 4}, H_main : {None, 1}, D_branch : {None, 0, 1, 2},
     Qc : {None, 0, 2}, Qb : {None, 1, 2}]

A11QInputs ==
    [H_main : {None, 0, 2, 4}, W_main : {None, 1}, H_branch : {None, 0, 1, 2},
     W_branch : {1}, Qc : {None, 0, 2}, Qb : {None, 1, 2}]

A11U_calc ==
    Idle /\ \E sv \in A11UInputs : \E r \in A11U_outputs(sv) : Calculate("A11U_outputs", sv, r)

A11Q_calc ==
    Idle /\ \E sv \in A11QInputs : \E r \in A11Q_outputs(sv) : Calculate("A11Q_outputs", sv, r)

\* two-row tables with the ratio in k1 (and k2), the NAME or the second ratio
\* in k2 and the PATH in k3
WarnTables(K1, K2, paths) ==
    {<<[k1 |-> a, k2 |-> b, k3 |-> p, C |-> 2], [k1 |-> 4, k2 |-> 1, k3 |-> p2, C |-> 3]>> :
        a \in K1, b \in K2, p \in paths, p2 \in paths}

WarnBase ==
    [A11U |-> Stored("file", <<[k1 |-> 4, k2 |-> 0, k3 |-> Branch, C |-> 2]>>),
     A11A |-> Stored("master", <<[k1 |-> 1, k2 |-> TeeOrWyeMain, k3 |-> Main, C |-> 3]>>),
     A11Q |-> Stored("file", <<[k1 |-> 2, k2 |-> 1, k3 |-> Branch, C |-> 4]>>),
     A11R |-> Stored("master", <<[k1 |-> 1, k2 |-> 0, k3 |-> Main, C |-> 5]>>)]

WarnBooks ==
    {[WarnBase EXCEPT !.A11U = Stored("file", x)] :
        x \in WarnTables({2, 16, NA}, {0}, {Branch, Main})}
    \cup {[WarnBase EXCEPT !.A11A = Stored("master", x)] :
             x \in WarnTables({0, 1}, {0, TeeOrWyeMain}, {Branch, Main})}
    \cup {[WarnBase EXCEPT !.A11Q = Stored("file", x)] :
             x \in WarnTables({1, 4}, {0, 2, NA}, {Branch, Main, NA})}
    \cup {[WarnBase EXCEPT !.A11R = Stored("master", x)] :
             x \in WarnTables({0, 1}, {0}, {Branch, Main})}
    \cup {[WarnBase EXCEPT ![id] = Stored("none", <<>>)] :
             id \in {"A11U", "A11A", "A11Q", "A11R"}}

InitWarn == InitBook(WarnBooks)

\* ------------------------------------ cases with a hard domain limit
\* not all([...]): None and 0 alike count as not entered
NotEntered(x) == x = None \/ x = 0

\* df[df[col] >= num / den] and df[df[col] <= num / den] for a column that
\* counts tenths and den > 0; a missing cell compares false
RowsGeTenths(df, col, num, den) ==
    SelectSeq(df, LAMBDA r : r[col] # NA /\ r[col] * den >= 10 * num)

RowsLeTenths(df, col, num, den) ==
    SelectSeq(df, LAMBDA r : r[col] # NA /\ r[col] * den <= 10 * num)

\* a limit test that never stops the calculation
QbQsNeverBelow(Q_branch, Q_source) == FALSE

\* qb_qs_ratio < 0.4, for Q_source # 0
QbQsBelowLimit(Q_branch, Q_source) ==
    IF Q_source > 0 THEN 5 * Q_branch < 2 * Q_source ELSE 5 * Q_branch > 2 * Q_source

\* A10F: converging junction, Ab = Ac / 2; the main path is looked up in A10M.
\* A10F holds Vc in k1 and Qb/Qc in k2, A10M holds Qb/Qs in k1 and As/Ac in
\* k2, all in tenths.  The rows matched on Vc, As/Ac and Ab/Ac are not used
\* for the result; they fail on an empty frame like the rows that are.
A10F_outputs(sv) ==
    IF \E e \in {sv.entry_1, sv.entry_2, sv.entry_3, sv.entry_4} : NotEntered(e)
    THEN Ret(ErrorOnly("Missing input values. Please enter all required values."), <<>>)
    ELSE LET area_main == sv.entry_1 * sv.entry_2
             Q_source == sv.entry_3
             Q_branch == sv.entry_4
             Q_converged == Q_source + Q_branch
             tblF == get_case_table("A10F")
             branch_data == PathRows(tblF, Branch)
             valid_qb_qc == RowsGeTenths(branch_data, "k2", Q_branch, Q_converged)
             branch_qb_qc_row == IF valid_qb_qc # <<>> THEN valid_qb_qc[1]
                                 ELSE branch_data[Len(branch_data)]
             tblM == get_case_table("A10M")
             main_data == PathRows(tblM, Main)
             valid_qb_qs == RowsLeTenths(main_data, "k1", Q_branch, Q_source)
             main_qb_qs_row == IF valid_qb_qs # <<>> THEN valid_qb_qs[Len(valid_qb_qs)]
                               ELSE main_data[1]
         IN  IF Q_converged = 0 THEN Ret(ErrorOnly("float division by zero"), <<>>)
             ELSE IF QbQsBelowLimit(Q_branch, Q_source)
             THEN Ret(ErrorOnly("Invalid Input: Qb/Qs must be at least 0.4."), <<>>)
             ELSE IF \/ tblF = <<>>
                     \/ ~({"k1", "k2", "k3", "C"} \subseteq DOMAIN tblF[1])
                     \/ branch_data = <<>>
             THEN Ret(ErrorOnly("exception"), <<"A10F">>)
             ELSE IF \/ tblM = <<>>
                     \/ ~({"k1", "k2", "k3", "C"} \subseteq DOMAIN tblM[1])
                     \/ dropna(main_data, {"k2"}) = <<>>
             THEN Ret(ErrorOnly("exception"), <<"A10F", "A10M">>)
             ELSE Ret(BranchMain(Num(2 * Q_branch, area_main), Num(branch_qb_qc_row.C, 1),
                                 Num(Q_source, area_main), Num(Q_converged, area_main),
                                 Num(main_qb_qs_row.C, 1)),
                      <<"A10F", "A10M">>)

\* the texts "15-60" and "90" of the ANGLE column of the main rows of A11T
ANGLE_15_60 == 1560

ANGLE_90 == 9000

\* the As/Ac band of a 90 degree tap for As/Ac = num / den, den > 0: the code
\* of "0-0.4", "0.5", "0.6", "0.7", ">=0.8", or None outside the bands
AsAcBand(num, den) ==
    IF 10 * num <= 4 * den THEN 4
    ELSE IF 10 * num < 5 * den THEN 5
    ELSE IF 5 * den < 10 * num /\ 10 * num < 6 * den THEN 6
    ELSE IF 6 * den < 10 * num /\ 10 * num < 7 * den THEN 7
    ELSE IF 10 * num >= 8 * den THEN 8
    ELSE None

\* A11T: diverging tap.  k1 holds Vb/Vc (branch rows) or Vs/Vc (main rows)
\* in eighths, k2 the ANGLE, k4 the As/Ac band.
A11T_outputs(sv) ==
    IF None \in {sv.H, sv.W_main, sv.W_branch, sv.Qc, sv.Qb, sv.angle}
    THEN {Ret(ErrorOnly("Missing input values."), <<>>)}
    ELSE LET A_main == sv.H * sv.W_main
             A_branch == sv.H * sv.W_branch
             A_source == sv.H * (sv.W_main - sv.W_branch)
             Vb_Vc == TrueDiv(8 * sv.Qb * A_main, sv.Qc * A_branch)
             Vs_Vc == TrueDiv(8 * (sv.Qc - sv.Qb) * A_main, sv.Qc * A_source)
             df == get_case_table("A11T")
             branch_data == SelectSeq(df, LAMBDA r : r.k3 = Branch /\ r.k2 = sv.angle)
             main_all == PathRows(df, Main)
             band == AsAcBand(A_source, A_main)
             main_data ==
                 IF sv.angle \in {15, 30, 45, 60} THEN RowsEq(main_all, "k2", ANGLE_15_60)
                 ELSE IF sv.angle = 90
                 THEN IF band = None THEN RowsEq(main_all, "k2", ANGLE_90)
                      ELSE RowsEq(RowsEq(main_all, "k2", ANGLE_90), "k4", band)
                 ELSE main_all
         IN  IF A_source <= 0
             THEN {Ret(ErrorOnly("Invalid geometry: source area (As) must be positive."),
                       <<>>)}
             ELSE IF A_main = 0 \/ A_branch = 0 \/ sv.Qc = 0
             THEN {Ret(ErrorOnly("float division by zero"), <<>>)}
             ELSE IF df = <<>> THEN {Ret(ErrorOnly("A11T data not found."), <<"A11T">>)}
             ELSE IF ~({"k1", "k2", "k3", "k4", "C"} \subseteq DOMAIN df[1])
             THEN {Ret(ErrorOnly("KeyError"), <<"A11T">>)}
             ELSE IF branch_data = <<>>
             THEN {Ret(ErrorOnly("No branch data in A11T for ANGLE."), <<"A11T">>)}
             ELSE IF main_all = <<>>
             THEN {Ret(ErrorOnly("No main data found for A11T."), <<"A11T">>)}
             ELSE IF main_data = <<>>
             THEN {Ret(ErrorOnly("No matching main data after ANGLE and As/Ac filtering."),
                       <<"A11T">>)}
             ELSE {Ret(BranchMain(Num(sv.Qb, A_branch), Num(b.C, 1),
                                  Num(sv.Qc - sv.Qb, A_source), Num(sv.Qc, A_main),
                                  Num(m.C, 1)),
                       <<"A11T">>) :
                      b \in A11U_lookup(branch_data, Vb_Vc),
                      m \in A11U_lookup(main_data, Vs_Vc)}

A10FInputs ==
    [entry_1 : {None, 0, 1}, entry_2 : {None, 1}, entry_3 : {None, 0, 0 - 1, 5},
     entry_4 : {None, 1, 2, 5}]

A11TInputs ==
    [H : {0, 1}, W_main : {None, 4, 10}, W_branch : {None, 0, 2, 8},
     Qc : {None, 0, 4}, Qb : {2}, angle : {None, 20, 45, 90}]

DomainA12FInputs ==
    [L : {4}, D_geom : {None, 0, 1}, Ds : {2, 4}, theta : {None, 0, 90},
     Q : {1}, obstruction : {"none", "screen"}, n : {1}]

A10F_calc == Idle /\ \E sv \in A10FInputs : Calculate("A10F_outputs", sv, A10F_outputs(sv))

A11T_calc ==
    Idle /\ \E sv \in A11TInputs : \E r \in A11T_outputs(sv) : Calculate("A11T_outputs", sv, r)

A12F_domain_calc ==
    Idle /\ \E sv \in DomainA12FInputs : Calculate("A12F_outputs", sv, A12F_outputs(sv))

A10FTables ==
    {<<[k1 |-> 1, k2 |-> a, k3 |-> p, C |-> 2], [k1 |-> 1, k2 |-> 8, k3 |-> Branch, C |-> 3]>> :
        a \in {2, 5, NA}, p \in {Branch, Main}}

A10MTables ==
    {<<[k1 |-> a, k2 |-> s, k3 |-> Main, C |-> 4], [k1 |-> 10, k2 |-> s, k3 |-> p, C |-> 5]>> :
        a \in {4, 6, NA}, s \in {10, NA}, p \in {Branch, Main}}

A11TTables ==
    {<<[k1 |-> 8, k2 |-> a, k3 |-> Branch, k4 |-> NA, C |-> 2],
       [k1 |-> 5, k2 |-> m, k3 |-> p, k4 |-> b, C |-> 3],
       [k1 |-> 20, k2 |-> ANGLE_15_60, k3 |-> Main, k4 |-> NA, C |-> 4]>> :
        a \in {45, 90}, m \in {ANGLE_15_60, ANGLE_90}, p \in {Branch, Main}, b \in {4, 8}}

DomainBase ==
    [A10F |-> Stored("file", <<[k1 |-> 1, k2 |-> 5, k3 |-> Branch, C |-> 2]>>),
     A10M |-> Stored("master", <<[k1 |-> 4, k2 |-> 10, k3 |-> Main, C |-> 3]>>),
     A11T |-> Stored("file", <<[k1 |-> 8, k2 |-> 20, k3 |-> Branch, k4 |-> NA, C |-> 2],
                                [k1 |-> 8, k2 |-> NA, k3 |-> Main, k4 |-> 4, C |-> 3]>>),
     A12F |-> Stored("master", <<[k1 |-> 1, k2 |-> 90, k3 |-> 0, C |-> 2]>>),
     A14A1 |-> Stored("master", <<[k1 |-> 1, k2 |-> 0, k3 |-> 0, C |-> 1]>>)]

DomainBooks ==
    {[DomainBase EXCEPT !.A10F = Stored("file", x)] : x \in A10FTables}
    \cup {[DomainBase EXCEPT !.A10M = Stored("master", x)] : x \in A10MTables}
    \cup {[DomainBase EXCEPT !.A11T = Stored("file", x)] : x \in A11TTables}
    \cup {[DomainBase EXCEPT ![id] = Stored("none", <<>>)] :
             id \in {"A10F", "A10M", "A11T", "A12F", "A14A1"}}

InitDomain == InitBook(DomainBooks)

\* ------------------------------------------- requests for case tables
\* the most requests of a session that are followed
MaxRequests == 3

\* one call of get_case_table(duct_id); acc keeps the identifiers asked for,
\* res the table returned (<<>> when KeyError was raised)
Request ==
    /\ Len(acc) < MaxRequests
    /\ \E duct_id \in DOMAIN book :
          /\ op' = "get_case_table"
          /\ q' = <<duct_id>>
          /\ par' = <<>>
          /\ res' = get_case_table(duct_id)
          /\ acc' = Append(acc, duct_id)
          /\ cache' = CacheAfter({duct_id}, <<>>)
          /\ loads' = LoadsAfter({duct_id})
          /\ UNCHANGED <<table, book, shown>>

\* three identifiers, each in a file of its own, in the master workbook or
\* nowhere
CacheBooks ==
    {[A12A1 |-> Stored(a, IF a = "none" THEN <<>> ELSE <<[k1 |-> 2, k2 |-> 0, C |-> 3]>>),
      A13C |-> Stored(b, IF b = "none" THEN <<>> ELSE <<[k1 |-> 1, k2 |-> NA, C |-> 2]>>),
      A14A1 |-> Stored(c, IF c = "none" THEN <<>> ELSE <<[k1 |-> 1, k2 |-> 0, C |-> 1]>>)] :
        a \in {"file", "master", "none"}, b \in {"file", "master", "none"},
        c \in {"file", "master", "none"}}

InitCache == InitBook(CacheBooks)

\* ------------------------------------------- A11W: dovetail wye
\* a cell of the area-ratio column may hold text: a number written as text
\* is held as TextBase + the number, any other text as TextBase - 1
TextBase == 2000

IsText(x) == x # NA /\ x >= TextBase - 1

\* pd.to_numeric(column, errors="coerce") on one cell: a number stays, a
\* number written as text is parsed, any other text becomes NaN
to_numeric(x) ==
    IF ~IsText(x) THEN x
    ELSE IF x >= TextBase THEN x - TextBase
    ELSE NA

\* what a pipeline did when it also assigned to cached frames
RetW(out, ids, wr) == [out |-> out, acc |-> ids, wr |-> wr]

DualBranchLabels ==
    {"Branch 1 Velocity (ft/min)", "Branch 1 Velocity Pressure (in w.c.)",
     "Branch 1 Loss Coefficient", "Branch 1 Pressure Loss (in w.c.)",
     "Branch 2 Velocity (ft/min)", "Branch 2 Velocity Pressure (in w.c.)",
     "Branch 2 Loss Coefficient", "Branch 2 Pressure Loss (in w.c.)",
     "Main, Converged Velocity (ft/min)", "Main, Converged Velocity Pressure (in w.c.)"}

DualBranch(Vb, C_branch, Vc) ==
    Dict([l \in DualBranchLabels |->
             CASE l \in {"Branch 1 Velocity (ft/min)", "Branch 2 Velocity (ft/min)"} -> Vb
               [] l \in {"Branch 1 Velocity Pressure (in w.c.)",
                         "Branch 2 Velocity Pressure (in w.c.)"} -> Mul(Vb, Vb)
               [] l \in {"Branch 1 Loss Coefficient", "Branch 2 Loss Coefficient"} -> C_branch
               [] l \in {"Branch 1 Pressure Loss (in w.c.)",
                         "Branch 2 Pressure Loss (in w.c.)"} -> Mul(C_branch, Mul(Vb, Vb))
               [] l = "Main, Converged Velocity (ft/min)" -> Vc
               [] OTHER -> Mul(Vc, Vc)],
         NoEntry, NoEntry)

\* A11W: the area ratio (k1, and the input) counts hundredths.  The frame
\* get_case_table returns is the cached one, and the numeric column is
\* assigned to it, not to a copy.
A11W_outputs(sv) ==
    IF None \in {sv.H, sv.Wc, sv.area_ratio, sv.Qc}
    THEN Ret(ErrorOnly("Missing input values."), <<>>)
    ELSE LET A_main == sv.H * sv.Wc
             cached == get_case_table("A11W")
             branch_data == [i \in DOMAIN cached |->
                                [cached[i] EXCEPT !.k1 = to_numeric(cached[i].k1)]]
             branch_match == RowsEq(branch_data, "k1", sv.area_ratio)
             wr == [A11W |-> branch_data]
         IN  IF A_main = 0 \/ sv.area_ratio = 0
             THEN Ret(ErrorOnly("float division by zero"), <<>>)
             ELSE IF cached = <<>> THEN Ret(ErrorOnly("A11W branch data not found."), <<"A11W">>)
             ELSE IF "k1" \notin DOMAIN cached[1] THEN Ret(ErrorOnly("KeyError"), <<"A11W">>)
             ELSE IF branch_match = <<>>
             THEN RetW(ErrorOnly("No matching branch data found for the selected area ratio."),
                       <<"A11W">>, wr)
             ELSE IF "C" \notin DOMAIN cached[1]
             THEN RetW(ErrorOnly("KeyError"), <<"A11W">>, wr)
             ELSE RetW(DualBranch(Num(50 * sv.Qc, sv.area_ratio * A_main),
                                  Num(branch_match[1].C, 1), Num(sv.Qc, A_main)),
                       <<"A11W">>, wr)

A11WInputs == [H : {None, 0, 1}, Wc : {None, 1}, area_ratio : {None, 0, 50}, Qc : {None, 2}]

FrameA11UInputs ==
    [W_main : {4}, H_main : {None, 1}, D_branch : {0, 1, 2}, Qc : {2}, Qb : {1, 2}]

A11W_calc == Idle /\ \E sv \in A11WInputs : Calculate("A11W_outputs", sv, A11W_outputs(sv))

A11U_frame_calc ==
    Idle /\ \E sv \in FrameA11UInputs : \E r \in A11U_outputs(sv) :
        Calculate("A11U_outputs", sv, r)

\* the A11W tables: the area ratio as a number, as text, or missing
A11WTables ==
    {<<[k1 |-> a, k2 |-> 0, k3 |-> Branch, C |-> c], [k1 |-> b, k2 |-> 0, k3 |-> Branch, C |-> 3]>> :
        a \in {50, TextBase + 50, TextBase - 1, NA}, b \in {50, 100, TextBase + 100, NA},
        c \in {2, NA}}

FrameBooks ==
    {[A11W |-> Stored(at, x),
      A11U |-> Stored("file", u),
      A11A |-> Stored("master", <<[k1 |-> 1, k2 |-> TeeOrWyeMain, k3 |-> Main, C |-> 3]>>)] :
        at \in {"file", "master"}, x \in A11WTables,
        u \in WarnTables({2, NA}, {0}, {Branch})}
    \cup {[A11W |-> Stored("none", <<>>),
           A11U |-> Stored("none", <<>>),
           A11A |-> Stored("none", <<>>)]}

InitFrame == InitBook(FrameBooks)

\* ------------------------------ A7A: elbow with a Reynolds correction
\* The flow Q counts units in which Re / 10^4 = Q / (10 D) for the diameter
\* D in inches; the velocity is Q / D^2 in the matching unit and exceeds
\* 1 ft/min exactly when 2000 Q > 17 D^2.  R/D counts quarters.  The
\* factors of correction_table are in hundredths.
correction_table ==
    <<[Re |-> 1, c050 |-> 140, c075 |-> 177], [Re |-> 2, c050 |-> 126, c075 |-> 164],
      [Re |-> 3, c050 |-> 119, c075 |-> 156], [Re |-> 4, c050 |-> 114, c075 |-> 146],
      [Re |-> 6, c050 |-> 109, c075 |-> 138], [Re |-> 8, c050 |-> 106, c075 |-> 130],
      [Re |-> 10, c050 |-> 104, c075 |-> 115], [Re |-> 14, c050 |-> 100, c075 |-> 100],
      [Re |-> 20, c050 |-> 100, c075 |-> 100]>>

\* correction_table.index[np.searchsorted(index, re_scaled, side="right") - 1]:
\* the count of index values <= re_scaled, less one, is a position of the
\* index, and a negative position counts from its end
closest_re(re_scaled) ==
    LET index == Column(correction_table, "Re")
        searchsorted == Cardinality({i \in DOMAIN index : index[i] * re_scaled.den <= re_scaled.num})
        pos == searchsorted - 1
    IN  IF pos < 0 THEN index[Len(index) + pos + 1] ELSE index[pos + 1]

\* the factor of the column at closest_re when velocity < 23766.76 /
\* equivalent_diameter, which is velocity < velocity ** 1.000794; else 1.0
rnc_factor(Q, D, r_d_rounded) ==
    IF 2000 * Q > 17 * D * D
    THEN LET row == RowsEq(correction_table, "Re", closest_re(Num(Q, 10 * D)))[1]
         IN  Num(row[r_d_rounded], 100)
    ELSE Num(1, 1)

\* A7A reads its rows from the master frame and catches nothing: a KeyError,
\* ZeroDivisionError or IndexError leaves the function.  It carries no
\* output_type attribute.  The returns it can make, one per order of tied rows.
A7A_outputs(sv) ==
    IF None \in {sv.entry_1, sv.entry_2, sv.entry_3, sv.entry_4}
    THEN {Ret(A7H1_none(NoEntry), <<>>)}
    ELSE LET df == data_loc("A7A")
             leaves(msg) == {Ret(Raised(msg), <<"data">>)}
             velocity == Num(sv.entry_4, sv.entry_1 * sv.entry_1)
             r_d_rounded == IF sv.entry_2 <= 2 THEN "c050" ELSE "c075"
         IN  IF df = <<>> THEN leaves("KeyError: 'A7A'")
             ELSE IF sv.entry_1 = 0 THEN leaves("ZeroDivisionError")
             ELSE {IF r.st = "raise" THEN Ret(Raised("IndexError"), <<"data">>)
                   ELSE IF sv.entry_4 = 0 THEN Ret(Raised("ZeroDivisionError"), <<"data">>)
                   ELSE LET loss_coefficient ==
                                Mul(Mul(Num(r.C, 1), Num(r.C2, 1)),
                                    rnc_factor(sv.entry_4, sv.entry_1, r_d_rounded))
                        IN  Ret(A7H1_dict(velocity, Mul(velocity, velocity), loss_coefficient,
                                          Mul(loss_coefficient, Mul(velocity, velocity)),
                                          NoEntry),
                                <<"data">>) :
                      r \in A7A_lookup(df, sv.entry_3, sv.entry_2)}

\* the larger diameter goes with the smallest flow (velocity below 1 ft/min)
A7AInputs ==
    [entry_1 : {None, 0, 1, 2}, entry_2 : {None, 0, 2, 3}, entry_3 : {None, 0, 2},
     entry_4 : {None, 0, 1, 5, 10, 25}]
    \cup [entry_1 : {1}, entry_2 : {0, 2, 3}, entry_3 : {0, 2}, entry_4 : {70}]
    \cup [entry_1 : {11}, entry_2 : {0, 2, 3}, entry_3 : {0, 2}, entry_4 : {1}]

A7A_calc ==
    Idle /\ \E sv \in A7AInputs : \E r \in A7A_outputs(sv) : Calculate("A7A_outputs", sv, r)

\* the A7A rows of the master frame: R/D in k1, ANGLE in k2, C and K in C
A7ATables == CaseTables({1, 2}, Keys, Keys, 0)
\* ------------------------------------ A11A: round tee or wye, diverging
\* the returned dict of A11A: the main loss is on the converged velocity
\* pressure; a coefficient that was not found is None, and so is its loss
A11A_dict(Vb, Cb, Vs, Vc, Cm) ==
    LET d == BranchMain(Vb, Cb, Vs, Vc, Cm)
    IN  [d EXCEPT !.vals["Main Pressure Loss (in w.c.)"] = Mul(Cm, Mul(Vc, Vc))]

\* Ab/Ac counts quarters, Qb/Qc and Vs/Vc halves.  The NAME of a branch row
\* is held in k4 as its angle, the NAME of a main row in k2.  The returns it
\* can make, one per order of tied rows.
A11A_outputs(sv) ==
    IF None \in {sv.D_main, sv.D_branch, sv.angle, sv.Qc, sv.Qb}
    THEN {Ret(ErrorOnly("Missing input values."), <<>>)}
    ELSE LET tbl == get_case_table("A11A")
             branch_data == SelectSeq(tbl, LAMBDA r : r.k3 = Branch /\ r.k4 = sv.angle)
             main_data == SelectSeq(tbl, LAMBDA r : r.k3 = Main /\ r.k2 = TeeOrWyeMain)
             Ab_Ac == TrueDiv(4 * sv.D_branch * sv.D_branch, sv.D_main * sv.D_main)
             Qb_Qc == TrueDiv(2 * sv.Qb, sv.Qc)
             Vs_Vc == TrueDiv(2 * (sv.Qc - sv.Qb), sv.Qc)
             b == A11A_branch(branch_data, Ab_Ac, Qb_Qc)
             value(c) == IF c = NA THEN NoneValue ELSE Num(c, 1)
         IN  IF sv.D_main = 0 \/ sv.D_branch = 0
             THEN {Ret(ErrorOnly("float division by zero"), <<>>)}
             ELSE IF tbl = <<>> \/ ~({"k3", "k4"} \subseteq DOMAIN tbl[1])
             THEN {Ret(ErrorOnly("A11A branch data not found."), <<"A11A">>)}
             ELSE IF sv.Qc = 0 THEN {Ret(ErrorOnly("float division by zero"), <<"A11A">>)}
             ELSE IF ~({"k1", "k2"} \subseteq DOMAIN tbl[1])
                     \/ ("C" \notin DOMAIN tbl[1]
                            /\ (b.st = "ok" \/ A11A_main(main_data, Vs_Vc) # {NA}))
             THEN {Ret(ErrorOnly("KeyError"), <<"A11A", "A11A">>)}
             ELSE {Ret(A11A_dict(Num(sv.Qb, sv.D_branch * sv.D_branch), value(b.C),
                                 Num(sv.Qc - sv.Qb, sv.D_main * sv.D_main),
                                 Num(sv.Qc, sv.D_main * sv.D_main), value(C_main)),
                       <<"A11A", "A11A">>) :
                      C_main \in A11A_main(main_data, Vs_Vc)}

A11AInputs ==
    [D_main : {None, 0, 2}, D_branch : {0, 1, 2}, angle : {45, 90}, Qc : {None, 0, 2},
     Qb : {0, 1, 2}]

A11A_calc ==
    Idle /\ \E sv \in A11AInputs : \E r \in A11A_outputs(sv) : Calculate("A11A_outputs", sv, r)

A11ATables ==
    {<<[k1 |-> a, k2 |-> x, k3 |-> Branch, k4 |-> 45, C |-> 2],
       [k1 |-> v, k2 |-> TeeOrWyeMain, k3 |-> p, k4 |-> 0, C |-> 3]>> :
        a \in {1, 4}, x \in {0, 1, 2}, v \in {0, 1, 2}, p \in {Main, NA}}

\* --------------------------------------- the sections of the display
\* the output_type attribute set on the case functions; A7A_outputs (as A7C,
\* A7D, A7F, A7J, A8A, A8B, A8C, A8D and A9B2) sets none
output_type ==
    [A11V_outputs |-> "branch_main", A11W_outputs |-> "dual_branch",
     A11A_outputs |-> "branch_main", A13C_outputs |-> "standard",
     A7H1_outputs |-> "standard"]

\* OUTPUT_KEY_TO_STANDARD_LABEL_MAP.get(raw_key) of a key of the map
standard_label(raw_key) ==
    CASE raw_key = "Output 1: Velocity" -> "Velocity (ft/min)"
      [] raw_key = "Output 2: Vel. Pres @ V0 (in w.c.)" -> "Velocity Pressure (in w.c.)"
      [] raw_key = "Output 3: Loss Coefficient" -> "Loss Coefficient"
      [] raw_key = "Output 4: Pressure Loss (in w.c.)" -> "Total Pressure Loss (in w.c.)"
      [] raw_key = "Output 3: Loss Coefficient (nearest)" -> "Loss Coefficient (nearest)"
      [] raw_key = "Output 4: Loss Coefficient (bilinear)" -> "Loss Coefficient (bilinear)"
      [] raw_key = "Output 5: Pressure Loss (in w.c., bilinear)" ->
             "Total Pressure Loss (in w.c., bilinear)"
      [] OTHER -> raw_key

\* std_label.lower().startswith(section_prefix.lower()) for the section
\* prefixes "Branch 1", "Branch 2", "Branch", "Main" and "Results": the labels
\* are told apart by the text they begin with
startswith(std_label, section_prefix) ==
    LET begins ==
            IF std_label \in {l \in DualBranchLabels : l \notin BranchMainLabels}
            THEN IF std_label \in {"Branch 1 Velocity (ft/min)",
                                   "Branch 1 Velocity Pressure (in w.c.)",
                                   "Branch 1 Loss Coefficient",
                                   "Branch 1 Pressure Loss (in w.c.)"}
                 THEN {"Branch", "Branch 1"} ELSE {"Branch", "Branch 2"}
            ELSE IF std_label \in {"Branch Velocity (ft/min)",
                                   "Branch Velocity Pressure (in w.c.)",
                                   "Branch Loss Coefficient", "Branch Pressure Loss (in w.c.)"}
            THEN {"Branch"}
            ELSE IF std_label \in BranchMainLabels THEN {"Main"}
            ELSE {}
    IN  section_prefix \in begins

\* display_outputs_from_standard: the section each label is put in, by the
\* first prefix of the order of getattr(current_case_function, "output_type",
\* "standard") it starts with, else the fallback section
display_outputs_from_standard(case_function, labels) ==
    LET tag == IF case_function \in DOMAIN output_type THEN output_type[case_function]
               ELSE "standard"
        order == IF tag = "dual_branch" THEN <<"Branch 1", "Branch 2", "Main">>
                 ELSE IF tag = "branch_main" THEN <<"Branch", "Main">>
                 ELSE <<"Results">>
        found(l) == {i \in DOMAIN order : startswith(l, order[i])}
    IN  [l \in labels |->
            IF found(l) # {} THEN order[SetMin(found(l))]
            ELSE IF "Results" \in Range(order) THEN "Results" ELSE "Other Results"]

\* the tables of a session with one case of each shape
ShapeBase ==
    [A13C |-> Stored("file", <<[k1 |-> 1, k2 |-> 2, k3 |-> 0, C |-> 3]>>),
     A14A1 |-> Stored("master", <<[k1 |-> 1, k2 |-> 0, k3 |-> 0, C |-> 1]>>),
     A11V |-> Stored("master", <<[k1 |-> 1, k2 |-> 1, k3 |-> Branch, k4 |-> 5, C |-> 2],
                                  [k1 |-> 1, k2 |-> 1, k3 |-> Main, k4 |-> 5, C |-> 3]>>),
     A11W |-> Stored("file", <<[k1 |-> 50, k2 |-> 0, k3 |-> Branch, C |-> 2]>>),
     A7A |-> Stored("master", <<[k1 |-> 0, k2 |-> 2, k3 |-> 0, C |-> 1]>>),
     A11A |-> Stored("file", <<[k1 |-> 1, k2 |-> 1, k3 |-> Branch, k4 |-> 45, C |-> 2],
                                [k1 |-> 1, k2 |-> TeeOrWyeMain, k3 |-> Main, k4 |-> 0, C |-> 3]>>)]

ShapeBooks ==
    {[ShapeBase EXCEPT !.A7A = Stored("master", x)] : x \in A7ATables}
    \cup {[ShapeBase EXCEPT !.A11V = Stored("master", x)] : x \in A11VTables}
    \cup {[ShapeBase EXCEPT !.A11A = Stored("file", x)] : x \in A11ATables}
    \cup {[ShapeBase EXCEPT ![id] = Stored("none", <<>>)] : id \in {"A7A", "A11W", "A13C", "A11A"}}

InitShape == InitBook(ShapeBooks)

\* ------------------------------------------- A10A1: round converging wye
\* the row matched on col in data sorted by (k1, k2): the first row at or
\* above the target num / den (in tenths), else the last row of the data
A10A1_row(data, col, num, den) ==
    LET valid == RowsGeTenths(data, col, num, den)
    IN  IF valid # <<>> THEN SortedFirst2(valid, "k1", "k2")
        ELSE SortedLast2(data, "k1", "k2")

\* the coefficient of the row matched on the velocity ratio
A10A1_coefficient_of_velocity(data, v_num, v_den, a_num, a_den) ==
    A10A1_row(data, "k1", v_num, v_den).C

\* the velocity ratio (k1) and Ab/Ac (k2) are matched one by one; the row
\* matched on Ab/Ac gives the coefficient
A10A1_coefficient(data, v_num, v_den, a_num, a_den) ==
    LET branch_vb_vc_row == A10A1_row(data, "k1", v_num, v_den)
        branch_ab_ac_row == A10A1_row(data, "k2", a_num, a_den)
    IN  branch_ab_ac_row.C

\* A10A1 catches nothing: a KeyError, ZeroDivisionError or IndexError leaves
\* the function.  The branch table is A10A1, the main table A10A2; both hold
\* the velocity ratio in k1 and Ab/Ac in k2, in tenths.
A10A1_outputs(sv) ==
    IF None \in {sv.D_main, sv.D_branch, sv.Q_s, sv.Q_b}
    THEN Ret(Dict(AllNone(BranchMainLabels), NoEntry, NoEntry), <<>>)
    ELSE LET branch_data == get_case_table("A10A1")
             main_data == get_case_table("A10A2")
             area_main == sv.D_main * sv.D_main
             area_branch == sv.D_branch * sv.D_branch
             Q_c == sv.Q_s + sv.Q_b
             vb_vc_data == dropna(branch_data, {"k1", "k2", "C"})
             vs_vc_data == dropna(main_data, {"k1", "k2", "C"})
             columns == {"k1", "k2", "C"}
         IN  IF branch_data = <<>> THEN Ret(Raised("KeyError: A10A1"), <<"A10A1">>)
             ELSE IF main_data = <<>> THEN Ret(Raised("KeyError: A10A2"), <<"A10A1", "A10A2">>)
             ELSE IF area_branch = 0 \/ area_main = 0 \/ Q_c = 0
             THEN Ret(Raised("ZeroDivisionError"), <<"A10A1", "A10A2">>)
             ELSE IF ~(columns \subseteq DOMAIN branch_data[1])
                     \/ ~(columns \subseteq DOMAIN main_data[1])
             THEN Ret(Raised("KeyError: column"), <<"A10A1", "A10A2">>)
             ELSE IF vb_vc_data = <<>> \/ vs_vc_data = <<>>
             THEN Ret(Raised("IndexError"), <<"A10A1", "A10A2">>)
             ELSE Ret(BranchMain(
                          Num(sv.Q_b, area_branch),
                          Num(A10A1_coefficient(vb_vc_data, sv.Q_b * area_main,
                                                Q_c * area_branch, area_branch, area_main), 1),
                          Num(sv.Q_s, area_main),
                          Num(Q_c, area_main),
                          Num(A10A1_coefficient(vs_vc_data, sv.Q_s, Q_c,
                                                area_branch, area_main), 1)),
                      <<"A10A1", "A10A2">>)

A10A1Inputs ==
    [D_main : {None, 0, 2, 4}, D_branch : {None, 0, 1, 2}, Q_s : {None, 0, 1, 3},
     Q_b : {None, 0, 1}]

\* A10F with two duct sizes, so that Vc varies at a fixed Qb/Qc
WyeA10FInputs ==
    [entry_1 : {1, 2}, entry_2 : {None, 1}, entry_3 : {2, 4}, entry_4 : {1, 2}]

A10A1_calc == Idle /\ \E sv \in A10A1Inputs : Calculate("A10A1_outputs", sv, A10A1_outputs(sv))

A10F_wye_calc ==
    Idle /\ \E sv \in WyeA10FInputs : Calculate("A10F_outputs", sv, A10F_outputs(sv))

\* the tables of A10A1 and A10A2: two or three rows in any order of the ratios
A10A1Tables ==
    {<<[k1 |-> a, k2 |-> x, k3 |-> 0, C |-> 1], [k1 |-> b, k2 |-> y, k3 |-> 0, C |-> 2]>> :
        a \in {2, 5, NA}, b \in {2, 5}, x \in {3, 10}, y \in {1, 3, 10, NA}}
    \cup {<<[k1 |-> a, k2 |-> 10, k3 |-> 0, C |-> 1], [k1 |-> 5, k2 |-> x, k3 |-> 0, C |-> 2],
            [k1 |-> 8, k2 |-> y, k3 |-> 0, C |-> 3]>> :
             a \in {2, 8}, x \in {3, 10}, y \in {1, 3}}

WyeBase ==
    [A10A1 |-> Stored("file", <<[k1 |-> 5, k2 |-> 3, k3 |-> 0, C |-> 1]>>),
     A10A2 |-> Stored("file", <<[k1 |-> 5, k2 |-> 3, k3 |-> 0, C |-> 1]>>),
     A10F |-> Stored("file", <<[k1 |-> 1, k2 |-> 5, k3 |-> Branch, C |-> 2]>>),
     A10M |-> Stored("master", <<[k1 |-> 4, k2 |-> 10, k3 |-> Main, C |-> 3]>>)]

WyeBooks ==
    {[WyeBase EXCEPT !.A10A1 = Stored("file", x)] : x \in A10A1Tables}
    \cup {[WyeBase EXCEPT !.A10A2 = Stored("master", x)] : x \in A10A1Tables}
    \cup {[WyeBase EXCEPT !.A10F = Stored("file", x)] : x \in A10FTables}
    \cup {[WyeBase EXCEPT !.A10M = Stored("master", x)] : x \in A10MTables}
    \cup {[WyeBase EXCEPT ![id] = Stored("none", <<>>)] : id \in {"A10A1", "A10A2"}}

InitWye == InitBook(WyeBooks)

\* ------------------------------------- interpolation_manager: IDW weights
\* A weight vector is a sequence of fractions over one common denominator.

\* w = np.zeros_like(dx); w[zero_mask] = 1.0
one_hot(d) == [i \in DOMAIN d |-> IF d[i] = 0 THEN Num(1, 1) ELSE Num(0, 1)]

\* w = 1.0 / (d ** power); w / np.sum(w), or the uniform weights when the
\* sum is 0; dpow holds d ** power
normalised(dpow) ==
    LET w == [i \in DOMAIN dpow |-> ProdOf(DOMAIN dpow \ {i}, dpow)]
        w_sum == SumOf(DOMAIN dpow, w)
    IN  IF w_sum = 0 THEN [i \in DOMAIN dpow |-> Num(1, Len(dpow))]
        ELSE [i \in DOMAIN dpow |-> Num(w[i], w_sum)]

\* power = 2.0
_idw_weights_1d(x_data, xq) ==
    LET dx == [i \in DOMAIN x_data |-> Abs(x_data[i] - xq)]
    IN  IF \E i \in DOMAIN dx : dx[i] = 0 THEN one_hot(dx)
        ELSE normalised([i \in DOMAIN dx |-> dx[i] * dx[i]])

\* power = 2.0: dist ** power is dx * dx + dy * dy
_idw_weights_2d(x_data, y_data, xq, yq) ==
    LET dist2 == [i \in DOMAIN x_data |->
                     (x_data[i] - xq) * (x_data[i] - xq)
                     + (y_data[i] - yq) * (y_data[i] - yq)]
    IN  IF \E i \in DOMAIN dist2 : dist2[i] = 0 THEN one_hot(dist2)
        ELSE normalised(dist2)

\* float(np.sum(w * self.c)), with the weights that gave it
weighted_sum(w, c) ==
    [st |-> "ok", w |-> w,
     value |-> Num(SumOf(DOMAIN w, [i \in DOMAIN w |-> w[i].num * c[i]]), w[1].den)]

\* Interpolator1D.__call__ on the points (k1, C) of the table
Interpolator1D_call ==
    Idle /\ \E xq \in Targets :
        Finish("Interpolator1D", <<xq>>,
               weighted_sum(_idw_weights_1d(Column(table, "k1"), xq), Column(table, "C")))

\* Interpolator2D.__call__ on the points (k1, k2, C) of the table
Interpolator2D_call ==
    Idle /\ \E t \in IdwTargets :
        Finish("Interpolator2D", t,
               weighted_sum(_idw_weights_2d(Column(table, "k1"), Column(table, "k2"),
                                            t[1], t[2]),
                            Column(table, "C")))

\* ------------------------------------------------------ specifications
Next1 == A15C \/ A14A1 \/ A12B \/ Discard

\* the single-field floor lookups
Spec1 == Init1 /\ [][Next1]_vars

Next2 == A13C \/ A8G \/ Discard

\* the ceil lookups
Spec2 == Init2 /\ [][Next2]_vars

Next3 == A13C \/ A12D1 \/ A11U \/ Discard

\* the nearest lookups
Spec3 == Init2 /\ [][Next3]_vars

Next4 == A8A \/ A7D \/ A13C \/ Discard

\* the narrowing lookups
Spec4 == Init3 /\ [][Next4]_vars

Next5 == A12A1 \/ A14B1 \/ A10B \/ Discard

\* the independent lookups
Spec5 == Init2 /\ [][Next5]_vars

Next6 == A7A \/ A11A \/ A15C \/ Discard

\* the lookups with and without a fallback
Spec6 == Init2 /\ [][Next6]_vars

NextIdw == Idw \/ Discard

\* the interpolation
SpecIdw == InitIdw /\ [][NextIdw]_vars

Init == Init3

Next ==
    \/ A15C \/ A14A1 \/ A12B \/ A13C \/ A8G \/ A7D \/ A8A \/ A12D1 \/ A11U
    \/ A12A1 \/ A14B1 \/ A10B \/ A7A \/ A11A \/ Idw \/ Discard

\* every operation on one table
Spec == Init /\ [][Next]_vars

NextEntry == A12A1_calc \/ A12A2_calc \/ Discard

\* the duct entries with an optional obstruction
SpecEntry == InitEntry /\ [][NextEntry]_vars

NextScreen == A13C_calc \/ A13B_calc \/ A12F_calc \/ A12G_calc \/ Discard

\* the exits and hoods with an optional screen
SpecScreen == InitScreen /\ [][NextScreen]_vars
NextMissing == A13C_calc \/ A10B_calc \/ A11V_calc \/ A7H1_calc \/ Discard

\* cases with required inputs that may be left empty
SpecMissing == InitMissing /\ [][NextMissing]_vars

NextDisplay == Show \/ A7H1_calc \/ A11V_calc \/ Discard

\* what the output frame shows of a result
SpecDisplay == InitDisplay /\ [][NextDisplay]_vars

NextWarn == A11U_calc \/ A11Q_calc \/ Discard

\* the junctions that warn about the branch size
SpecWarn == InitWarn /\ [][NextWarn]_vars

NextDomain == A10F_calc \/ A11T_calc \/ A12F_domain_calc \/ Discard

\* the cases that refuse a geometry or a flow split
SpecDomain == InitDomain /\ [][NextDomain]_vars

NextCache == Request

\* sequences of get_case_table requests
SpecCache == InitCache /\ [][NextCache]_vars

NextFrame == A11W_calc \/ A11U_frame_calc \/ Discard

\* pipelines that derive helper columns from their table
SpecFrame == InitFrame /\ [][NextFrame]_vars

NextShape ==
    A7A_calc \/ A11V_calc \/ A11W_calc \/ A13C_calc \/ A11A_calc \/ Discard

SpecShape == InitShape /\ [][NextShape]_vars

NextWye == A10A1_calc \/ A10F_wye_calc \/ Discard

SpecWye == InitWye /\ [][NextWye]_vars

NextInterp == Interpolator1D_call \/ Interpolator2D_call \/ Discard

SpecInterp == InitIdw /\ [][NextInterp]_vars

\* ----------------------------------------------- the lookup properties
\* the rows of the table with no missing cell in the columns
Data(cols) == dropna(table, cols)

\* the tabulated values of a column among rows
ValuesOf(df, col) == {df[i][col] : i \in DOMAIN df}

\* v is the largest value of S that is <= t, or the minimum of S when none is
IsFloor(S, t, v) ==
    /\ v \in S
    /\ IF \E x \in S : x <= t
       THEN v <= t /\ \A x \in S : x <= t => x <= v
       ELSE \A x \in S : v <= x

\* v is the smallest value of S that is >= t, or the maximum of S when none is
IsCeil(S, t, v) ==
    /\ v \in S
    /\ IF \E x \in S : x >= t
       THEN v >= t /\ \A x \in S : x >= t => v <= x
       ELSE \A x \in S : x <= v

\* no value of S is strictly closer to t than v
IsNearest(S, t, v) ==
    /\ v \in S
    /\ \A x \in S : Abs(v - t) <= Abs(x - t)

\* the row that supplied the coefficient holds the selected values in cols
Supplies(cols) ==
    /\ res.C \in DOMAIN table
    /\ \A j \in DOMAIN cols : table[res.C][cols[j]] = res.sel[j]

\* C1: in A15C, A14A1 and A12B, on every table with a tabulated value and for
\* every target, the selected value is the largest tabulated value <= target,
\* or the minimum tabulated value when none is <= target, and the returned
\* coefficient is the C of a row holding the selected value.
C1_FloorLookup ==
    (op \in {"A15C", "A14A1", "A12B"} /\ Data({"k1", "C"}) # <<>>) =>
        /\ res.st = "ok"
        /\ IsFloor(ValuesOf(Data({"k1", "C"}), "k1"), q[1], res.sel[1])
        /\ Supplies(<<"k1">>)

\* a floor lookup between two tabulated values, the larger one listed first
C1_Witness ==
    /\ op = "A15C"
    /\ q = <<1>>
    /\ Len(table) >= 2 /\ table[1].k1 = 2 /\ table[2].k1 = 0
    /\ res.st = "ok" /\ res.sel = <<0>> /\ res.C = 2

\* C2: the ANGLE of A13C and the ANGLE and A1/A of A8G's _loss_coeff_nearest
\* are rounded up: the selected value is the smallest tabulated value >=
\* target, or the maximum tabulated value when none is >= target (A1/A among
\* the rows of the selected angle).
C2_CeilLookup ==
    LET dat == Data({"k1", "k2", "C"})
    IN  /\ (op = "A13C" /\ dat # <<>>) =>
              /\ res.st = "ok"
              /\ IsCeil(ValuesOf(dat, "k1"), q[1], res.sel[1])
        /\ (op = "A8G" /\ dat # <<>>) =>
              /\ res.st = "ok"
              /\ IsCeil(ValuesOf(dat, "k1"), q[1], res.sel[1])
              /\ IsCeil(ValuesOf(RowsEq(dat, "k1", res.sel[1]), "k2"), q[2], res.sel[2])
              /\ Supplies(<<"k1", "k2">>)

\* a ceil lookup between two tabulated angles, and one above the table
C2_Witness ==
    /\ op = "A8G"
    /\ q = <<1, 3>>
    /\ ValuesOf(Data({"k1", "k2", "C"}), "k1") = {0, 2}
    /\ res.st = "ok" /\ res.sel = <<2, 2>>
    /\ Cardinality(ValuesOf(RowsEq(table, "k1", 2), "k2")) = 2

\* C3: the As/A of A13C for angle > 20, the ANGLE of A12D1 (against the
\* computed angle rounded to a whole degree) and the Vb/Vc of A11U are matched
\* to the nearest tabulated value: no tabulated value of the field is strictly
\* closer to the target than the selected one, in either direction.
C3_NearestLookup ==
    LET dat == Data({"k1", "k2", "C"})
    IN  /\ (op = "A13C" /\ dat # <<>> /\ Deg13C(q[1]) > A13C_ANGLE_LIMIT) =>
              /\ res.st = "ok"
              /\ IsNearest(ValuesOf(RowsEq(dat, "k1", res.sel[1]), "k2"), q[2], res.sel[2])
              /\ Supplies(<<"k1", "k2">>)
        /\ (op = "A12D1" /\ dat # <<>>) =>
              /\ IsNearest(ValuesOf(dat, "k2"), PyRound2(q[2]), res.sel[2])
              /\ res.st = "ok" => Supplies(<<"k1", "k2">>)
        /\ (op = "A11U" /\ Data({"k1"}) # <<>>) =>
              /\ res.st = "ok"
              /\ IsNearest(ValuesOf(Data({"k1"}), "k1"), q[1], res.sel[1])
              /\ Supplies(<<"k1">>)

\* a nearest lookup that selects a value above the target although a smaller
\* tabulated value exists
C3_Witness ==
    /\ op = "A12D1"
    /\ q[2] = 3
    /\ ValuesOf(Data({"k1", "k2", "C"}), "k2") = {0, 2}
    /\ res.st = "ok" /\ res.sel[2] = 2

\* C4: in A8A, A7D and A13C each field is matched only among the rows that
\* survived the earlier fields: the candidate rows after a field are rows of
\* the candidates before it that hold the field's selected value, no candidate
\* set is empty when the table has a complete row, and the row returned holds
\* the selected value of every field.
C4_Narrowing ==
    (op \in {"A8A", "A7D", "A13C"} /\ Data({"k1", "k2", "k3", "C"}) # <<>>) =>
        LET cols == <<"k1", "k2", "k3">>
        IN  /\ res.st = "ok"
            /\ Len(res.cands) = Len(res.sel) + 1
            /\ \A j \in DOMAIN res.sel :
                  /\ res.cands[j + 1] # {}
                  /\ res.cands[j + 1] \subseteq
                         {c \in res.cands[j] : table[c][cols[j]] = res.sel[j]}
            /\ res.C \in res.cands[Len(res.cands)]
            /\ \A j \in DOMAIN res.sel : table[res.C][cols[j]] = res.sel[j]

\* a narrowing lookup whose second field is resolved to a value that the
\* unfiltered table would not give: the table holds a closer value in a row
\* that did not survive the first field
C4_Witness ==
    /\ op = "A7D"
    /\ q = <<1, 1>>
    /\ res.st = "ok" /\ res.sel = <<0, 0>>
    /\ \E i \in DOMAIN table : table[i].k1 = 2 /\ table[i].k2 = 2
    /\ Cardinality(res.cands[2]) < Cardinality(res.cands[1])

\* C5: in A12A1, A14B1 and A10B each field's value is selected from the
\* values of that field over the whole table, whatever the other field's
\* target is: it is the floor (ceil) of its own target over all the rows.
C5_Independent ==
    LET dat == Data({"k1", "k2", "C"})
    IN  /\ (op = "A12A1" /\ dat # <<>>) =>
              /\ IsFloor(ValuesOf(dat, "k1"), q[1], res.sel[1])
              /\ IsCeil(ValuesOf(dat, "k2"), q[2], res.sel[2])
        /\ (op = "A14B1" /\ dat # <<>>) =>
              /\ IsFloor(ValuesOf(dat, "k1"), q[1], res.sel[1])
              /\ IsFloor(ValuesOf(dat, "k2"), q[2], res.sel[2])
        /\ (op = "A10B" /\ dat # <<>>) =>
              /\ IsCeil(ValuesOf(dat, "k1"), q[1], res.sel[1])
              /\ IsFloor(ValuesOf(Data({"k2", "C"}), "k2"), q[2], res.sel[2])

\* an independent lookup whose two selected values no row holds together
C5_Witness ==
    /\ op = "A12A1"
    /\ res.st = "error"
    /\ Len(res.sel) = 2
    /\ \A i \in DOMAIN table : ~(table[i].k1 = res.sel[1] /\ table[i].k2 = res.sel[2])

\* C6: on every table with a complete row and for every target, the floor and
\* ceil lookups of A7A, A11A and A15C yield a coefficient: none raises and
\* none yields an absent coefficient.
C6_NeverFails ==
    (op \in {"A7A", "A11A", "A15C"} /\ Data({"k1", "k2", "C"}) # <<>>) => res.st = "ok"
\* ------------------------------------------ the interpolation properties
\* the points whose key vector is the target
Hits == {i \in DOMAIN table : table[i].k1 = q[1] /\ table[i].k2 = q[2]}

\* the squared distance of point i to the target, stated on its own
SqDist(i) ==
    (table[i].k1 - q[1]) * (table[i].k1 - q[1]) + (table[i].k2 - q[2]) * (table[i].k2 - q[2])

\* C7: when the target is the key vector of a point of the table, the
\* interpolation returns exactly the coefficient of that point (of the first
\* such point of the table when several share the key vector), for every k >= 1
\* and every power, and blends in no other point.
C7_ExactHit ==
    (op = "idw" /\ Hits # {}) =>
        /\ res.den = 1
        /\ res.num = table[SetMin(Hits)].C
        /\ res.idx = {}

\* an exact hit on the second point of a table whose other points hold another
\* coefficient, with more than one neighbour asked for
C7_Witness ==
    /\ op = "idw"
    /\ Len(table) = 3
    /\ Hits = {2}
    /\ table[2].C = 3 /\ table[1].C = 1 /\ table[3].C = 1
    /\ par[1] >= 2
    /\ res.num = 3 /\ res.den = 1

\* C8: when no point is at distance zero, the interpolation blends exactly
\* min(k, n) of the n points, and every blended point is at least as close to
\* the target as every point left out.
C8_Neighbours ==
    (op = "idw" /\ Hits = {}) =>
        /\ res.via = "blend"
        /\ res.idx \subseteq DOMAIN table
        /\ Cardinality(res.idx) = (IF par[1] < Len(table) THEN par[1] ELSE Len(table))
        /\ \A i \in res.idx : \A j \in DOMAIN table \ res.idx : SqDist(i) <= SqDist(j)

\* fewer neighbours than points, the nearest point listed last
C8_Witness ==
    /\ op = "idw"
    /\ Hits = {}
    /\ Len(table) = 3 /\ par[1] = 2
    /\ res.idx = {2, 3}
    /\ SqDist(1) > SqDist(2) /\ SqDist(2) > SqDist(3)

\* C9: the blended value is a convex combination of the blended coefficients:
\* the normalised weights are positive and sum to 1, so the value lies between
\* the smallest and the largest coefficient blended.
C9_Convex ==
    (op = "idw" /\ Hits = {}) =>
        LET sel == {table[i].C : i \in res.idx}
        IN  /\ res.den > 0
            /\ SetMin(sel) * res.den <= res.num
            /\ res.num <= SetMax(sel) * res.den

\* a blend of two different coefficients at different distances: the value is
\* strictly between them
C9_Witness ==
    /\ op = "idw"
    /\ Hits = {}
    /\ Cardinality(res.idx) = 2
    /\ \E i, j \in res.idx : table[i].C = 1 /\ table[j].C = 3 /\ SqDist(i) < SqDist(j)
    /\ res.den < res.num /\ res.num < 3 * res.den

\* C10: when every point of the table is at distance zero from the target, the
\* interpolation returns the arithmetic mean of all the coefficients.
C10_DegenerateMean ==
    (op = "idw" /\ Hits = DOMAIN table) =>
        res.num * Len(table) = SumOf(DOMAIN table, [i \in DOMAIN table |-> table[i].C]) * res.den

\* -------------------------------------------- the composition properties
LossLabel == "Output 3: Loss Coefficient"

\* the pipeline returned its numeric results: no Error, no None
Succeeded == res.st = "dict" /\ res.Error = NoEntry /\ DOMAIN res.vals # {}
             /\ \A l \in DOMAIN res.vals : res.vals[l].den # 0

\* the case table of the duct entry that ran, and its geometry ratio t/D
EntryTable == IF op = "A12A1_outputs" THEN book.A12A1.rows ELSE book.A12A2.rows

EntryRatio ==
    IF op = "A12A1_outputs" THEN q.t \div q.D
    ELSE (2 * q.t * (q.H + q.W)) \div (q.H * q.W)

\* the base coefficients the table offers for the ratio: the rows whose t/D is
\* the largest tabulated value at or below it (the smallest when none is)
EntryBase ==
    {r.C : r \in {x \in Range(EntryTable) :
                    IsFloor({y.k1 : y \in Range(EntryTable)}, EntryRatio, x.k1)}}

\* the correction the obstruction brings: a coefficient of the screen table
\* or of the plate table, 0 when the inputs of the correction are not given
EntryAux ==
    IF q.obstruction = "screen" /\ q.n # None
    THEN {r.C : r \in Range(book.A14A1.rows)}
    ELSE IF q.obstruction = "perforated plate"
            /\ None \notin {q.n, q.plate_thickness, q.hole_diameter}
    THEN {r.C : r \in Range(book.A14B1.rows)}
    ELSE {0}

\* C11: for a duct entry (A12A1, A12A2) with an obstruction, the total
\* coefficient is 1 + aux when t/D <= 0.05, the limit included, whatever the
\* base coefficient is, and base + aux above the limit.
C11_ThresholdSwitch ==
    (op \in {"A12A1_outputs", "A12A2_outputs"} /\ Succeeded
     /\ q.obstruction \in {"screen", "perforated plate"}) =>
        \E aux \in EntryAux :
            IF EntryRatio <= THIN_PLATE_LIMIT
            THEN res.vals[LossLabel] = Num(1 + aux, 1)
            ELSE \E base \in EntryBase : res.vals[LossLabel] = Num(base + aux, 1)

\* a screened entry exactly at the limit: the total is 1 + 1 although every
\* base coefficient of the table is 3 or more
C11_Witness ==
    /\ op = "A12A1_outputs" /\ Succeeded
    /\ q.obstruction = "screen" /\ q.n # None
    /\ EntryRatio = THIN_PLATE_LIMIT
    /\ res.vals[LossLabel] = Num(2, 1)
    /\ \A base \in EntryBase : base >= 3

ScreenCases == {"A13C_outputs", "A13B_outputs", "A12F_outputs", "A12G_outputs"}

\* the screen correction applied and the pipeline returned its results
ScreenApplies ==
    /\ op \in ScreenCases /\ Succeeded
    /\ q.obstruction # NoneStr /\ strip_lower(q.obstruction) = "screen" /\ q.n # None

\* the exit-to-duct area ratio of the case that ran, as a fraction of its inputs
ScreenRatio ==
    CASE op = "A13C_outputs" -> Num(q.Hs * q.W, q.H * q.W)
      [] op = "A13B_outputs" -> Num(q.Ds * q.Ds, q.D * q.D)
      [] op = "A12F_outputs" ->
            Num(q.Ds * q.Ds, (q.Ds - 2 * q.D_geom) * (q.Ds - 2 * q.D_geom))
      [] op = "A12G_outputs" ->
            Num(IF q.profile = "round hood" THEN q.D1 * q.D1 ELSE q.H1 * q.W1, q.D * q.D)

\* the coefficients of the case table, and those of the screen table A14A1
ScreenBase ==
    {r.C : r \in Range(CASE op = "A13C_outputs" -> book.A13C.rows
                         [] op = "A13B_outputs" -> book.A13B.rows
                         [] op = "A12F_outputs" -> book.A12F.rows
                         [] op = "A12G_outputs" -> book.A12G.rows)}

ScreenAux == {r.C : r \in Range(book.A14A1.rows)}

\* (total - base) * ratio^2 = aux, over the common denominator
ScaledBy(total, base, aux, ratio) ==
    total.num * ratio.num * ratio.num =
        total.den * (base * ratio.num * ratio.num + aux * ratio.den * ratio.den)

MissingCases == {"A13C_outputs", "A10B_outputs", "A11V_outputs", "A7H1_outputs"}

\* a required raw input of the calculation just made is None; A7H1 requires
\* H, W, Q and one of R, S
RequiredAbsent ==
    /\ op \in MissingCases
    /\ CASE op = "A13C_outputs" -> None \in {q.H, q.Hs, q.W, q.angle, q.Q}
         [] op = "A10B_outputs" -> None \in {q.D_main, q.D_branch, q.Q_source, q.Q_branch}
         [] op = "A11V_outputs" -> None \in {q.H, q.W_c, q.W_b, q.W_s, q.Q_c, q.Q_b}
         [] OTHER -> None \in {q.H, q.W, q.Q} \/ (q.R = None /\ q.S = None)

\* C13: a calculation with a required raw input absent has returned without
\* asking for any table: neither get_case_table nor the data frame was used
C13_MissingFirst == RequiredAbsent => acc = <<>>

\* the numeric result labels of the case just calculated
CaseLabels ==
    CASE op = "A13C_outputs" -> StandardLabels
      [] op = "A7H1_outputs" -> A7H1Labels
      [] OTHER -> BranchMainLabels

\* C14: a calculation with a required raw input absent has returned every
\* numeric label of its case as None, with no "Error" and no "Warning" entry
C14_MissingResult ==
    RequiredAbsent =>
        /\ res.st = "dict"
        /\ res.vals = AllNone(CaseLabels)
        /\ res.Error = NoEntry
        /\ res.Warning = NoEntry

\* C15: a result holding an "Error" entry is shown as the error message alone:
\* no numeric entry of it is on the output frame
C15_ErrorSupersedes ==
    (op # "idle" /\ res.st = "dict" /\ res.Error # NoEntry) =>
        /\ shown.kind = "error"
        /\ shown.text = res.Error
        /\ shown.labels = {}

\* a result with a number next to its "Error" was shown as the message alone
C15_Witness ==
    /\ op = "display_outputs_raw"
    /\ res.Error # NoEntry
    /\ \E l \in DOMAIN res.vals : res.vals[l].den # 0
    /\ shown = ShowError(res.Error)

\* ------------------------------------------------ the warning property
\* the geometry of the calculation just made is outside the recommended limit
OutsideRecommended ==
    \/ op = "A11U_outputs" /\ None \notin {q.D_branch, q.W_main}
                           /\ q.D_branch >= q.W_main - 2
    \/ op = "A11Q_outputs" /\ None \notin {q.H_branch, q.H_main}
                           /\ q.H_branch >= q.H_main - 2

\* C16: a calculation outside the recommended limit that returned no "Error"
\* returned the "Warning" together with all ten numeric entries, none absent
C16_WarningWithValues ==
    (OutsideRecommended /\ res.Error = NoEntry) =>
        /\ res.Warning # NoEntry
        /\ DOMAIN res.vals = BranchMainLabels
        /\ \A l \in BranchMainLabels : res.vals[l].den # 0

\* A11U with the branch exactly two inches below the main width: the warning
\* came next to the ten numbers
C16_Witness ==
    /\ op = "A11U_outputs"
    /\ q.W_main = 4 /\ q.D_branch = 2
    /\ res.Warning # NoEntry
    /\ res.Error = NoEntry
    /\ \A l \in BranchMainLabels : res.vals[l].den # 0

\* ------------------------------------------------- the domain property
\* every required input of the calculation just made was entered, and the
\* derived quantity of the case is outside its hard limit: Qb/Qs < 0.4
\* (A10F), source area <= 0 (A11T), upstream diameter <= 0 (A12F)
DomainViolated ==
    \/ /\ op = "A10F_outputs"
       /\ \A e \in {q.entry_1, q.entry_2, q.entry_3, q.entry_4} : e # None /\ e # 0
       /\ IF q.entry_3 > 0 THEN 5 * q.entry_4 < 2 * q.entry_3
          ELSE 5 * q.entry_4 > 2 * q.entry_3
    \/ /\ op = "A11T_outputs"
       /\ None \notin {q.H, q.W_main, q.W_branch, q.Qc, q.Qb, q.angle}
       /\ q.H * (q.W_main - q.W_branch) <= 0
    \/ /\ op = "A12F_outputs"
       /\ None \notin {q.L, q.D_geom, q.Ds, q.theta, q.Q}
       /\ q.theta = 90
       /\ q.Ds - 2 * q.D_geom <= 0

\* C17: a calculation whose derived quantity is outside the hard limit has
\* returned an "Error" message, no number, and asked for no table
C17_DomainViolation ==
    DomainViolated =>
        /\ res.st = "dict"
        /\ res.Error # NoEntry
        /\ \A l \in DOMAIN res.vals : res.vals[l].den = 0
        /\ acc = <<>>

\* A10F with Qb/Qs = 0.2 was refused with the message about Qb/Qs
C17_Witness ==
    /\ op = "A10F_outputs"
    /\ q.entry_3 = 5 /\ q.entry_4 = 1 /\ None \notin {q.entry_1, q.entry_2}
    /\ q.entry_1 # 0
    /\ res.Error = "Invalid Input: Qb/Qs must be at least 0.4."
    /\ res.vals = <<>>
    /\ acc = <<>>

\* ------------------------------------------- the unexpected failures
\* C18: whatever fails inside a case function, the function returns a dict
\* (with the failure under "Error"): no exception leaves it
C18_NoEscape == op \in MissingCases => res.st = "dict"

\* ------------------------------------------------ the cache properties
\* C19: however many requests were made, every per-case file and the master
\* workbook was read at most once, and a table is cached exactly when its
\* source was read
C19_ComputeOnce ==
    /\ \A p \in DOMAIN loads : loads[p] <= 1
    /\ \A id \in DOMAIN book :
          Cached(id) =>
              /\ cache[id] = Fetch(id)
              /\ loads[IF book[id].at = "file" THEN id ELSE Workbook] = 1

\* the same identifier was asked for twice, its file was read once and the
\* second request returned the cached table
C19_Witness ==
    /\ Len(acc) >= 2
    /\ acc[1] = acc[2]
    /\ book[acc[1]].at = "file"
    /\ loads[acc[1]] = 1
    /\ res = cache[acc[1]]
    /\ res # <<>>

\* C20: whatever pipelines have run, the cached table of every identifier is
\* the table that was loaded for it: same rows, columns and values
C20_TableImmutable ==
    \A id \in DOMAIN book : Cached(id) => cache[id] = Fetch(id)

\* ---------------------------------------------- the display properties
\* the section of every label on show after a calculation that succeeded
Sections == display_outputs_from_standard(op, {standard_label(k) : k \in shown.labels})

\* C21: every case function publishes a shape tag, and no label of a
\* successful result is put in the fallback section "Other Results"
C21_ShapeTag ==
    (op \in {"A7A_outputs", "A11V_outputs", "A11W_outputs", "A13C_outputs", "A11A_outputs"}
        /\ shown.kind = "results")
    => /\ op \in DOMAIN output_type
       /\ \A l \in DOMAIN Sections : Sections[l] # "Other Results"

\* --------------------------------------- the Reynolds correction property
\* the tabulated Re (in 10^4) the correction is to be read at: the largest
\* one <= Re, or the smallest tabulated one when Re is below them all
ReFloor(Q, D) ==
    LET tabulated == {correction_table[i].Re : i \in DOMAIN correction_table}
        below == {x \in tabulated : x * 10 * D <= Q}
    IN  IF below # {} THEN SetMax(below) ELSE SetMin(tabulated)

\* C23: the Reynolds correction factor of A7A is the factor tabulated at the
\* largest tabulated Re <= the actual Re, and the factor of the smallest
\* tabulated Re when the actual Re is below every tabulated one
C23_ReynoldsFloor ==
    (op = "A7A_outputs" /\ Succeeded /\ res.vals[LossLabel].den # 0
        /\ 2000 * q.entry_4 > 17 * q.entry_1 * q.entry_1)
    => \E r \in A7A_lookup(data_loc("A7A"), q.entry_3, q.entry_2) :
           /\ r.st = "ok"
           /\ Same(res.vals[LossLabel],
                   Mul(Num(r.C * r.C2, 1),
                       Num(RowsEq(correction_table, "Re", ReFloor(q.entry_4, q.entry_1))[1][
                               IF q.entry_2 <= 2 THEN "c050" ELSE "c075"], 100)))

\* ------------------------------------------ the pressure-loss property
\* the labels of a path: its velocity, velocity pressure, loss coefficient
\* and pressure loss
Paths ==
    {<<"Output 1: Velocity", "Output 2: Velocity Pressure",
       "Output 3: Loss Coefficient", "Output 4: Pressure Loss">>,
     <<"Output 1: Velocity", "Output 2: Vel. Pres @ V0 (in w.c.)",
       "Output 3: Loss Coefficient", "Output 4: Pressure Loss (in w.c.)">>,
     <<"Branch Velocity (ft/min)", "Branch Velocity Pressure (in w.c.)",
       "Branch Loss Coefficient", "Branch Pressure Loss (in w.c.)">>,
     <<"Main, Source Velocity (ft/min)", "Main, Source Velocity Pressure (in w.c.)",
       "Main Loss Coefficient", "Main Pressure Loss (in w.c.)">>,
     <<"Branch 1 Velocity (ft/min)", "Branch 1 Velocity Pressure (in w.c.)",
       "Branch 1 Loss Coefficient", "Branch 1 Pressure Loss (in w.c.)">>,
     <<"Branch 2 Velocity (ft/min)", "Branch 2 Velocity Pressure (in w.c.)",
       "Branch 2 Loss Coefficient", "Branch 2 Pressure Loss (in w.c.)">>}

\* the paths a result reports in full, with numbers
Reported ==
    {p \in Paths : /\ Range(p) \subseteq DOMAIN res.vals
                   /\ \A i \in DOMAIN p : res.vals[p[i]].den # 0}

\* C22: in every successful result each reported pressure loss is the loss
\* coefficient of its path times the velocity pressure of that path, which is
\* the square of its velocity (in units of 4005 ft/min); the main path is on
\* the source velocity pressure
C22_PressureLoss ==
    Succeeded =>
        \A p \in Reported :
            /\ Same(res.vals[p[2]], Mul(res.vals[p[1]], res.vals[p[1]]))
            /\ Same(res.vals[p[4]], Mul(res.vals[p[3]], res.vals[p[2]]))

\* ------------------------------------------- the junction lookup properties
\* the Vb/Vc (in halves) the A11Q inputs of the state give
QueryVbVc == TrueDiv(2 * q.Qb * q.H_main * q.W_main, q.Qc * q.H_branch * q.W_branch)

\* C24: the branch row A11Q selects has the smallest tabulated Vb/Vc >= the
\* query Vb/Vc, and the maximum tabulated Vb/Vc when the query exceeds them all
C24_BranchCeil ==
    (op = "A11Q_outputs" /\ Succeeded) =>
        LET branch_data == PathRows(book.A11Q.rows, Branch)
        IN  \E i \in DOMAIN branch_data :
                /\ res.vals["Branch Loss Coefficient"] = Num(branch_data[i].C, 1)
                /\ IsCeil(ValuesOf(branch_data, "k1") \ {NA}, QueryVbVc, branch_data[i].k1)

\* C25: the row that gives the branch (the main) coefficient of A10A1 has the
\* smallest tabulated Ab/Ac >= the query area ratio, or the maximum tabulated
\* Ab/Ac when none is >=
C25_AreaCeil ==
    (op = "A10A1_outputs" /\ Succeeded /\ res.vals["Branch Loss Coefficient"].den # 0) =>
        \A path \in {<<"A10A1", "Branch Loss Coefficient">>,
                     <<"A10A2", "Main Loss Coefficient">>} :
            LET data == dropna(book[path[1]].rows, {"k1", "k2", "C"})
                Ab == q.D_branch * q.D_branch
                Ac == q.D_main * q.D_main
                above == {x \in ValuesOf(data, "k2") : x * Ac >= 10 * Ab}
            IN  \E i \in DOMAIN data :
                    /\ res.vals[path[2]] = Num(data[i].C, 1)
                    /\ IF above # {} THEN data[i].k2 = SetMin(above)
                       ELSE data[i].k2 = SetMax(ValuesOf(data, "k2"))

\* the coefficients of a returned dict that has them
Coefficients(d) == <<d.vals["Branch Loss Coefficient"], d.vals["Main Loss Coefficient"]>>

\* the A10A1 inputs that give the same Ab/Ac as those of the state and a
\* result with numbers
SameAreaRatio ==
    {sv \in A10A1Inputs :
        /\ None \notin {sv.D_main, sv.D_branch, sv.Q_s, sv.Q_b}
        /\ sv.D_branch * sv.D_branch * q.D_main * q.D_main
               = q.D_branch * q.D_branch * sv.D_main * sv.D_main
        /\ A10A1_outputs(sv).out.st = "dict"}

\* the A10F inputs that give the same Qb/Qc as those of the state and a result
\* with numbers
SameFlowRatio ==
    {sv \in WyeA10FInputs :
        /\ sv.entry_4 * (q.entry_3 + q.entry_4) = q.entry_4 * (sv.entry_3 + sv.entry_4)
        /\ A10F_outputs(sv).out.Error = NoEntry}

\* C26: two inputs of A10A1 with the same Ab/Ac, and two inputs of A10F with
\* the same Qb/Qc, get the same loss coefficients whatever their velocity
\* ratios and velocities are
C26_VelocityIgnored ==
    /\ (op = "A10A1_outputs" /\ Succeeded /\ res.vals["Branch Loss Coefficient"].den # 0)
       => \A sv \in SameAreaRatio : Coefficients(A10A1_outputs(sv).out) = Coefficients(res)
    /\ (op = "A10F_outputs" /\ Succeeded)
       => \A sv \in SameFlowRatio :
              A10F_outputs(sv).out.vals["Branch Loss Coefficient"]
                  = res.vals["Branch Loss Coefficient"]

\* A10A1 ran on a table where another input of the same Ab/Ac is matched to a
\* different row on the velocity ratio, and both got the same coefficient
C26_Witness ==
    /\ op = "A10A1_outputs" /\ Succeeded /\ res.vals["Branch Loss Coefficient"].den # 0
    /\ LET data == dropna(book.A10A1.rows, {"k1", "k2", "C"})
           vrow(sv) == A10A1_row(data, "k1", sv.Q_b * sv.D_main * sv.D_main,
                                 (sv.Q_s + sv.Q_b) * sv.D_branch * sv.D_branch)
       IN  \E sv \in SameAreaRatio :
               /\ vrow(sv) # vrow(q)
               /\ Coefficients(A10A1_outputs(sv).out) = Coefficients(res)

\* no auxiliary coefficient is resolved: no obstruction, or a screen or a
\* perforated plate whose parameters are not all given
NoAuxResolved ==
    ~ (q.obstruction = "screen" /\ q.n # None)
    /\ ~ (q.obstruction = "perforated plate"
          /\ None \notin {q.n, q.plate_thickness, q.hole_diameter})

\* C27: in A12A1 and A12A2, when no auxiliary correction coefficient is
\* resolved, the total loss coefficient is the base coefficient C of the case
\* table, for every t/D
C27_NoAuxIsBase ==
    (op \in {"A12A1_outputs", "A12A2_outputs"} /\ Succeeded /\ NoAuxResolved) =>
        \E base \in EntryBase : res.vals[LossLabel] = Num(base, 1)

\* every required input of the case that ran was given
RequiredPresent ==
    CASE op = "A13C_outputs" -> None \notin {q.H, q.Hs, q.W, q.angle, q.Q}
      [] op \in {"A7A_outputs", "A11V_outputs", "A11W_outputs", "A11A_outputs"} ->
            \A f \in DOMAIN q : q[f] # None
      [] OTHER -> FALSE

\* C28: with every required input present, a returned result with no Error
\* entry has no None among its numeric entries: no velocities next to an
\* absent loss coefficient and pressure loss
C28_AllOrNothing ==
    (res.st = "dict" /\ res.Error = NoEntry /\ RequiredPresent) =>
        \A l \in DOMAIN res.vals : res.vals[l].den # 0

\* C29: every numeric label a case pipeline returns has an entry in
\* OUTPUT_KEY_TO_STANDARD_LABEL_MAP, and after a successful calculation every
\* numeric entry of the result is displayed: none is dropped
C29_DisplayCoverage ==
    (op # "idle" /\ Succeeded) =>
        /\ DOMAIN res.vals \subseteq OUTPUT_KEY_TO_STANDARD_LABEL_MAP
        /\ shown.kind = "results"
        /\ shown.labels = DOMAIN res.vals

\* the points of the table that coincide with the query of the interpolator
InterpHits ==
    {i \in DOMAIN table :
        /\ table[i].k1 = q[1]
        /\ op = "Interpolator2D" => table[i].k2 = q[2]}

\* C30: for every non-empty data set and every query the weights of
\* _idw_weights_1d and _idw_weights_2d are non-negative and sum to 1, also
\* when several points coincide with the query; the interpolators return a
\* tabulated coefficient at an exact hit and a value between the smallest and
\* the largest coefficient otherwise
C30_Weights ==
    op \in {"Interpolator1D", "Interpolator2D"} =>
        LET coefs == {table[i].C : i \in DOMAIN table}
            v == res.value
        IN  /\ \A i \in DOMAIN res.w : res.w[i].num >= 0 /\ res.w[i].den > 0
            /\ SumOf(DOMAIN res.w, [i \in DOMAIN res.w |-> res.w[i].num]) = res.w[1].den
            /\ IF InterpHits # {} THEN \E x \in coefs : v.num = x * v.den
               ELSE SetMin(coefs) * v.den <= v.num /\ v.num <= SetMax(coefs) * v.den
====
